---- MODULE Spec2Model ----
(***************************************************************************)
(* Family-tree relationship engine of caballerorandy6/family-tree:         *)
(* the relationship derivers and edit validators of                        *)
(* apps/web/lib/familyValidations.ts, the tree builder of                  *)
(* apps/web/lib/treeD3Transform.ts (and its earlier individual-node        *)
(* variant), and the member dialogs that write parent                      *)
(* and spouse links through PUT /members/:id.                              *)
(*                                                                         *)
(* A member set is a sequence of member records, in array order.  Ids are  *)
(* opaque in the source (cuid strings, only ever compared for equality);   *)
(* here they are the naturals 1..NumMembers, and None (0) is null.  A link *)
(* whose value is not the id of a member of the sequence is dangling.      *)
(***************************************************************************)
EXTENDS Integers, Sequences, FiniteSets, TLC

VARIABLES members, call, dialog

vars == <<members, call, dialog>>

\* ------------------------------------------------------------------ bounds
NumMembers == 3
MaxParentLinks == 5
MaxLinks == 4
MaxDialogLinks == 2
MaxGenerationDiff == 5

\* --------------------------------------------------------------- data model
None == 0

MemberIds == 1..NumMembers

\* FamilyMember, restricted to the fields the graph logic reads.
Member(id, parentId, secondParentId, spouseId, gender, birthYear, generation) ==
  [id |-> id, parentId |-> parentId, secondParentId |-> secondParentId,
   spouseId |-> spouseId, gender |-> gender, birthYear |-> birthYear,
   generation |-> generation]

idsOf(ms) == {ms[i].id : i \in DOMAIN ms}

\* members.find(m => m.id === id) as a sequence of zero or one member
find(id, ms) ==
  LET hits == SelectSeq(ms, LAMBDA m : m.id = id)
  IN IF hits = <<>> THEN <<>> ELSE <<Head(hits)>>

\* ------------------------------------------------------ relationship deriver
getChildrenOf(memberId, ms) ==
  SelectSeq(ms, LAMBDA m : m.parentId = memberId \/ m.secondParentId = memberId)

\* a variant that pushes the lookup result without testing it; an absent
\* member is a record without fields
getParentsOfUnchecked(member, ms) ==
  LET lookup(id) == IF find(id, ms) = <<>> THEN <<[id |-> None]>> ELSE find(id, ms)
  IN (IF member.parentId # None THEN lookup(member.parentId) ELSE <<>>)
     \o (IF member.secondParentId # None THEN lookup(member.secondParentId) ELSE <<>>)

getParentsOf(member, ms) ==
  (IF member.parentId # None THEN find(member.parentId, ms) ELSE <<>>)
  \o (IF member.secondParentId # None THEN find(member.secondParentId, ms) ELSE <<>>)

RECURSIVE getAllDescendants(_, _, _)
RECURSIVE descendantsLoop(_, _, _, _)

\* the for-loop over the children of getAllDescendants
descendantsLoop(children, i, ms, visited) ==
  IF i > Len(children) THEN visited
  ELSE IF children[i].id \notin visited
       THEN descendantsLoop(children, i + 1, ms,
              getAllDescendants(children[i].id, ms, visited \cup {children[i].id}))
       ELSE descendantsLoop(children, i + 1, ms, visited)

getAllDescendants(memberId, ms, visited) ==
  IF memberId \in visited THEN visited
  ELSE descendantsLoop(getChildrenOf(memberId, ms), 1, ms, visited)

RECURSIVE getAllAncestors(_, _, _)

getAllAncestors(memberId, ms, visited) ==
  IF memberId \in visited THEN visited
  ELSE LET found == find(memberId, ms) IN
    IF found = <<>> THEN visited
    ELSE LET member == found[1]
             v1 == IF member.parentId # None /\ member.parentId \notin visited
                   THEN getAllAncestors(member.parentId, ms,
                                        visited \cup {member.parentId})
                   ELSE visited
             v2 == IF member.secondParentId # None /\ member.secondParentId \notin v1
                   THEN getAllAncestors(member.secondParentId, ms,
                                        v1 \cup {member.secondParentId})
                   ELSE v1
         IN v2

\* getSiblingsOf comparing like slots only (parentId with parentId,
\* secondParentId with secondParentId)
getSiblingsOfLikeSlots(memberId, ms) ==
  LET found == find(memberId, ms) IN
  IF found = <<>> THEN [fullSiblings |-> <<>>, halfSiblings |-> <<>>]
  ELSE LET member == found[1]
           sharesParent1(m) == member.parentId # None /\ m.parentId = member.parentId
           sharesParent2(m) == member.secondParentId # None /\
              m.secondParentId = member.secondParentId
           isFull(m) == sharesParent1(m) /\ sharesParent2(m) /\
              member.parentId # None /\ member.secondParentId # None
       IN [fullSiblings |-> SelectSeq(ms, LAMBDA m : m.id # memberId /\ isFull(m)),
           halfSiblings |-> SelectSeq(ms, LAMBDA m : m.id # memberId /\ ~isFull(m) /\
                                          (sharesParent1(m) \/ sharesParent2(m)))]

\* a variant that looks for the member's first parent in the first slot of
\* the others only
getSiblingsOfFirstSlot(memberId, ms) ==
  LET found == find(memberId, ms) IN
  IF found = <<>> THEN [fullSiblings |-> <<>>, halfSiblings |-> <<>>]
  ELSE LET member == found[1]
           sharesParent1(m) == member.parentId # None /\ m.parentId = member.parentId
           sharesParent2(m) == member.secondParentId # None /\
              (m.parentId = member.secondParentId \/ m.secondParentId = member.secondParentId)
           isFull(m) == sharesParent1(m) /\ sharesParent2(m) /\
              member.parentId # None /\ member.secondParentId # None
       IN [fullSiblings |-> SelectSeq(ms, LAMBDA m : m.id # memberId /\ isFull(m)),
           halfSiblings |-> SelectSeq(ms, LAMBDA m : m.id # memberId /\ ~isFull(m) /\
                                          (sharesParent1(m) \/ sharesParent2(m)))]

getSiblingsOf(memberId, ms) ==
  LET found == find(memberId, ms) IN
  IF found = <<>> THEN [fullSiblings |-> <<>>, halfSiblings |-> <<>>]
  ELSE LET member == found[1]
           sharesParent1(m) == member.parentId # None /\
              (m.parentId = member.parentId \/ m.secondParentId = member.parentId)
           sharesParent2(m) == member.secondParentId # None /\
              (m.parentId = member.secondParentId \/ m.secondParentId = member.secondParentId)
           isFull(m) == sharesParent1(m) /\ sharesParent2(m) /\
              member.parentId # None /\ member.secondParentId # None
       IN [fullSiblings |-> SelectSeq(ms, LAMBDA m : m.id # memberId /\ isFull(m)),
           halfSiblings |-> SelectSeq(ms, LAMBDA m : m.id # memberId /\ ~isFull(m) /\
                                          (sharesParent1(m) \/ sharesParent2(m)))]

\* a variant that only looks for the two ids in the order given
areSpousesInOrder(member1Id, member2Id, ms) ==
  \E i \in DOMAIN ms :
     ms[i].parentId = member1Id /\ ms[i].secondParentId = member2Id

\* areSpouses: some member has the two ids in its two parent slots
areSpouses(member1Id, member2Id, ms) ==
  \E i \in DOMAIN ms :
     \/ ms[i].parentId = member1Id /\ ms[i].secondParentId = member2Id
     \/ ms[i].parentId = member2Id /\ ms[i].secondParentId = member1Id

\* Set.add on an insertion-ordered Set kept as a sequence
setAdd(s, x) == IF \E i \in DOMAIN s : s[i] = x THEN s ELSE Append(s, x)

RECURSIVE spouseIdsLoopFirstSlot(_, _, _, _)

\* the loop of getSpousesOf without its secondParentId branch
spouseIdsLoopFirstSlot(memberId, ms, i, spouseIds) ==
  IF i > Len(ms) THEN spouseIds
  ELSE LET m == ms[i]
           s1 == IF m.parentId = memberId /\ m.secondParentId # None
                 THEN setAdd(spouseIds, m.secondParentId) ELSE spouseIds
       IN spouseIdsLoopFirstSlot(memberId, ms, i + 1, s1)

RECURSIVE spouseIdsLoop(_, _, _, _)

\* the for-loop of getSpousesOf that collects the other parent of each child
spouseIdsLoop(memberId, ms, i, spouseIds) ==
  IF i > Len(ms) THEN spouseIds
  ELSE LET m == ms[i]
           s1 == IF m.parentId = memberId /\ m.secondParentId # None
                 THEN setAdd(spouseIds, m.secondParentId) ELSE spouseIds
           s2 == IF m.secondParentId = memberId /\ m.parentId # None
                 THEN setAdd(s1, m.parentId) ELSE s1
       IN spouseIdsLoop(memberId, ms, i + 1, s2)

RECURSIVE mapFind(_, _)

\* ids.map(id => members.find(...)).filter(m => m !== undefined)
mapFind(ids, ms) ==
  IF ids = <<>> THEN <<>> ELSE find(Head(ids), ms) \o mapFind(Tail(ids), ms)

\* getSpousesOf (validator, detail view): partners by shared children only
getSpousesOf(memberId, ms) == mapFind(spouseIdsLoop(memberId, ms, 1, <<>>), ms)

\* getSpouses (tree builder): spouseId links in both directions and
\* partners by shared children, returned in array order
getSpouses(memberId, ms) ==
  LET found == find(memberId, ms)
      direct == IF found # <<>> /\ found[1].spouseId # None
                THEN {found[1].spouseId} ELSE {}
      inverse == {ms[i].id : i \in {j \in DOMAIN ms : ms[j].spouseId = memberId}}
      shared == {ms[i].secondParentId : i \in {j \in DOMAIN ms :
                    ms[j].parentId = memberId /\ ms[j].secondParentId # None}}
                \cup {ms[i].parentId : i \in {j \in DOMAIN ms :
                    ms[j].secondParentId = memberId /\ ms[j].parentId # None}}
      spouseIds == direct \cup inverse \cup shared
  IN SelectSeq(ms, LAMBDA m : m.id \in spouseIds)

\* ------------------------------------- tree builder (treeD3Transform.ts)
\* the id 'root' of the synthesized virtual root
RootId == -1

getDirectChildren(memberId, ms) ==
  SelectSeq(ms, LAMBDA m : m.parentId = memberId \/ m.secondParentId = memberId)

hasParentsInTree(memberId, ms) ==
  LET found == find(memberId, ms) IN
  IF found = <<>> THEN FALSE
  ELSE \/ found[1].parentId # None /\ found[1].parentId \in idsOf(ms)
       \/ found[1].secondParentId # None /\ found[1].secondParentId \in idsOf(ms)

findRoots(ms) ==
  SelectSeq(ms, LAMBDA m :
     ~(m.parentId # None /\ m.parentId \in idsOf(ms)) /\
     ~(m.secondParentId # None /\ m.secondParentId \in idsOf(ms)))

\* a variant that keeps every root candidate
filterSpouseOnlyRootsKeepAll(roots, ms) == roots

filterSpouseOnlyRoots(roots, ms) ==
  SelectSeq(roots, LAMBDA root :
     LET spouses == getSpouses(root.id, ms) IN
     ~ \E k \in DOMAIN spouses :
          \/ spouses[k].parentId # None /\ spouses[k].parentId \in idsOf(ms)
          \/ spouses[k].secondParentId # None /\ spouses[k].secondParentId \in idsOf(ms))

\* a variant that flags every spouse as merged into the node
memberToNodeAllMerged(member, calculatedGen, allSpouses, ms) ==
  [id |-> member.id,
   generation |-> calculatedGen,
   spouses |-> [k \in DOMAIN allSpouses |->
                  [id |-> allSpouses[k].id, appearsElsewhere |-> FALSE]],
   children |-> <<>>]

\* a variant that shows the stored generation of the member
memberToNodeStoredGeneration(member, calculatedGen, allSpouses, ms) ==
  [id |-> member.id,
   generation |-> member.generation,
   spouses |-> [k \in DOMAIN allSpouses |->
                  [id |-> allSpouses[k].id,
                   appearsElsewhere |-> hasParentsInTree(allSpouses[k].id, ms)]],
   children |-> <<>>]

memberToNode(member, calculatedGen, allSpouses, ms) ==
  [id |-> member.id,
   generation |-> calculatedGen,
   spouses |-> [k \in DOMAIN allSpouses |->
                  [id |-> allSpouses[k].id,
                   appearsElsewhere |-> hasParentsInTree(allSpouses[k].id, ms)]],
   children |-> <<>>]

\* every spouse marked as processed, in-tree parents or not
markSpousesAll(allSpouses, ms, processedIds) ==
  processedIds \cup {allSpouses[k].id : k \in DOMAIN allSpouses}

\* processedIds after the spouses without in-tree parents are marked
markSpouses(allSpouses, ms, processedIds) ==
  processedIds \cup
    {allSpouses[k].id : k \in {j \in DOMAIN allSpouses :
                                 ~hasParentsInTree(allSpouses[j].id, ms)}}

RECURSIVE addAll(_, _)
\* list.forEach(c => childIds.add(c.id))
addAll(childIds, list) ==
  IF list = <<>> THEN childIds ELSE addAll(setAdd(childIds, Head(list).id), Tail(list))

RECURSIVE addSpouseChildren(_, _, _)
\* for (const spouse of allSpouses) getDirectChildren(spouse.id).forEach(add)
addSpouseChildren(childIds, allSpouses, ms) ==
  IF allSpouses = <<>> THEN childIds
  ELSE addSpouseChildren(addAll(childIds, getDirectChildren(Head(allSpouses).id, ms)),
                         Tail(allSpouses), ms)

collectChildIds(memberId, allSpouses, ms) ==
  addSpouseChildren(addAll(<<>>, getDirectChildren(memberId, ms)), allSpouses, ms)

RECURSIVE buildSubtree(_, _, _, _)
RECURSIVE buildChildren(_, _, _, _, _)

\* the loop over childIds: [nodes, processedIds] after the child subtrees
buildChildren(childIds, ms, processedIds, generation, childNodes) ==
  IF childIds = <<>> THEN [nodes |-> childNodes, processedIds |-> processedIds]
  ELSE LET childId == Head(childIds)
           child == find(childId, ms)
       IN IF childId \in processedIds \/ child = <<>>
          THEN buildChildren(Tail(childIds), ms, processedIds, generation, childNodes)
          ELSE LET sub == buildSubtree(child[1], ms, processedIds, generation)
               IN buildChildren(Tail(childIds), ms, sub.processedIds, generation,
                                Append(childNodes, sub.node))

\* buildSubtree: [node, processedIds]; processedIds is the shared mutable Set
buildSubtree(primaryMember, ms, processedIds, currentGeneration) ==
  LET allSpouses == getSpouses(primaryMember.id, ms)
      marked == markSpouses(allSpouses, ms, processedIds \cup {primaryMember.id})
      node == memberToNode(primaryMember, currentGeneration, allSpouses, ms)
      kids == buildChildren(collectChildIds(primaryMember.id, allSpouses, ms), ms,
                            marked, currentGeneration + 1, <<>>)
  IN [node |-> [node EXCEPT !.children = kids.nodes],
      processedIds |-> kids.processedIds]

RECURSIVE buildRoots(_, _, _, _)
\* the loop over the roots (step 3 of transformToTreeData)
buildRoots(roots, ms, processedIds, rootNodes) ==
  IF roots = <<>> THEN [nodes |-> rootNodes, processedIds |-> processedIds]
  ELSE LET root == Head(roots) IN
       IF root.id \in processedIds
       THEN buildRoots(Tail(roots), ms, processedIds, rootNodes)
       ELSE LET allSpouses == getSpouses(root.id, ms)
                marked == markSpouses(allSpouses, ms, processedIds \cup {root.id})
                node == memberToNode(root, 0, allSpouses, ms)
                kids == buildChildren(collectChildIds(root.id, allSpouses, ms), ms,
                                      marked, 1, <<>>)
            IN buildRoots(Tail(roots), ms, kids.processedIds,
                          Append(rootNodes, [node EXCEPT !.children = kids.nodes]))

\* a variant that drops the members left unprocessed
buildRemainingDropped(remaining, ms, processedIds, rootNodes) ==
  [nodes |-> rootNodes, processedIds |-> processedIds]

RECURSIVE buildRemaining(_, _, _, _)
\* the loop over the members left unprocessed (step 5); `remaining` is
\* filtered once, before the loop, so a member processed meanwhile is
\* built again
buildRemaining(remaining, ms, processedIds, rootNodes) ==
  IF remaining = <<>> THEN [nodes |-> rootNodes, processedIds |-> processedIds]
  ELSE LET sub == buildSubtree(Head(remaining), ms, processedIds, 0)
       IN buildRemaining(Tail(remaining), ms, sub.processedIds,
                         Append(rootNodes, sub.node))

\* transformToTreeData giving up (no top-level node, hence null) on a
\* member set without roots
topLevelNodesNoFallback(ms) ==
  LET potentialRoots == findRoots(ms)
      trueRoots == filterSpouseOnlyRoots(potentialRoots, ms)
      roots == IF Len(trueRoots) > 0 THEN trueRoots ELSE potentialRoots
  IN IF Len(roots) = 0
     THEN <<>>
     ELSE LET built == buildRoots(roots, ms, {}, <<>>)
              remaining == SelectSeq(ms, LAMBDA m : m.id \notin built.processedIds)
          IN buildRemaining(remaining, ms, built.processedIds, built.nodes).nodes

\* the top-level nodes transformToTreeData ends with (rootNodes)
topLevelNodes(ms) ==
  LET potentialRoots == findRoots(ms)
      trueRoots == filterSpouseOnlyRoots(potentialRoots, ms)
      roots == IF Len(trueRoots) > 0 THEN trueRoots ELSE potentialRoots
  IN IF Len(roots) = 0
     THEN <<buildSubtree(ms[1], ms, {}, 0).node>>
     ELSE LET built == buildRoots(roots, ms, {}, <<>>)
              remaining == SelectSeq(ms, LAMBDA m : m.id \notin built.processedIds)
          IN buildRemaining(remaining, ms, built.processedIds, built.nodes).nodes

\* a variant that puts the virtual root over a single top-level node too
wrapRootsAlwaysVirtual(rootNodes) ==
  IF Len(rootNodes) = 0 THEN <<>>
  ELSE <<[id |-> RootId, generation |-> -1, spouses |-> <<>>, children |-> rootNodes]>>

\* single root, or the virtual root over several; <<>> is null
wrapRoots(rootNodes) ==
  IF Len(rootNodes) = 1 THEN <<rootNodes[1]>>
  ELSE IF Len(rootNodes) = 0 THEN <<>>
  ELSE <<[id |-> RootId, generation |-> -1, spouses |-> <<>>, children |-> rootNodes]>>

\* transformToTreeData: <<>> for null, <<node>> otherwise
transformToTreeData(ms) ==
  IF Len(ms) = 0 THEN <<>> ELSE wrapRoots(topLevelNodes(ms))

\* ----------------------- tree builder, individual-node variant (part_005)
\* getSpouse: the id of the spouse shown on the node, None when absent
getSpouse(memberId, ms) ==
  LET found == find(memberId, ms)
      spouseOf == SelectSeq(ms, LAMBDA m : m.spouseId = memberId)
  IN IF found # <<>> /\ found[1].spouseId # None
     THEN (IF find(found[1].spouseId, ms) # <<>> THEN found[1].spouseId ELSE None)
     ELSE IF spouseOf # <<>> THEN spouseOf[1].id ELSE None

findRootsIndividual(ms) == SelectSeq(ms, LAMBDA m : ~hasParentsInTree(m.id, ms))

memberToNodeIndividual(member, calculatedGen, ms) ==
  [id |-> member.id, generation |-> calculatedGen,
   spouseId |-> getSpouse(member.id, ms), children |-> <<>>]

RECURSIVE buildSubtreeIndividual(_, _, _, _)
RECURSIVE buildChildrenIndividual(_, _, _, _, _)

\* the loop over the children of buildSubtree (individual-node variant)
buildChildrenIndividual(children, ms, processedIds, generation, childNodes) ==
  IF children = <<>> THEN [nodes |-> childNodes, processedIds |-> processedIds]
  ELSE IF Head(children).id \in processedIds
       THEN buildChildrenIndividual(Tail(children), ms, processedIds, generation,
                                    childNodes)
       ELSE LET sub == buildSubtreeIndividual(Head(children), ms, processedIds,
                                              generation)
            IN buildChildrenIndividual(Tail(children), ms, sub.processedIds,
                                       generation, Append(childNodes, sub.node))

buildSubtreeIndividual(member, ms, processedIds, currentGeneration) ==
  LET node == memberToNodeIndividual(member, currentGeneration, ms)
      kids == buildChildrenIndividual(getDirectChildren(member.id, ms), ms,
                                      processedIds \cup {member.id},
                                      currentGeneration + 1, <<>>)
  IN [node |-> [node EXCEPT !.children = kids.nodes],
      processedIds |-> kids.processedIds]

RECURSIVE buildRootsIndividual(_, _, _, _)
\* the loop over the roots (individual-node variant)
buildRootsIndividual(roots, ms, processedIds, rootNodes) ==
  IF roots = <<>> THEN [nodes |-> rootNodes, processedIds |-> processedIds]
  ELSE IF Head(roots).id \in processedIds
       THEN buildRootsIndividual(Tail(roots), ms, processedIds, rootNodes)
       ELSE LET sub == buildSubtreeIndividual(Head(roots), ms, processedIds, 0)
            IN buildRootsIndividual(Tail(roots), ms, sub.processedIds,
                                    Append(rootNodes, sub.node))

RECURSIVE buildRemainingIndividual(_, _, _, _)
\* the loop over the members left unprocessed (individual-node variant)
buildRemainingIndividual(remaining, ms, processedIds, rootNodes) ==
  IF remaining = <<>> THEN [nodes |-> rootNodes, processedIds |-> processedIds]
  ELSE LET sub == buildSubtreeIndividual(Head(remaining), ms, processedIds, 0)
       IN buildRemainingIndividual(Tail(remaining), ms, sub.processedIds,
                                   Append(rootNodes, sub.node))

topLevelNodesIndividual(ms) ==
  LET roots == findRootsIndividual(ms)
  IN IF Len(roots) = 0
     THEN <<buildSubtreeIndividual(ms[1], ms, {}, 0).node>>
     ELSE LET built == buildRootsIndividual(roots, ms, {}, <<>>)
              remaining == SelectSeq(ms, LAMBDA m : m.id \notin built.processedIds)
          IN buildRemainingIndividual(remaining, ms, built.processedIds,
                                      built.nodes).nodes

wrapRootsIndividual(rootNodes) ==
  IF Len(rootNodes) = 1 THEN <<rootNodes[1]>>
  ELSE IF Len(rootNodes) = 0 THEN <<>>
  ELSE <<[id |-> RootId, generation |-> -1, spouseId |-> None, children |-> rootNodes]>>

transformToTreeDataIndividual(ms) ==
  IF Len(ms) = 0 THEN <<>> ELSE wrapRootsIndividual(topLevelNodesIndividual(ms))

\* ------------------------------------------------------------ member sets
LinkKinds == {"parentId", "secondParentId", "spouseId"}
ParentKinds == {"parentId", "secondParentId"}

\* The member sets of n members whose links of the given kinds are drawn
\* from the ids 1..NumMembers (ids above n are dangling), at most maxLinks
\* of them set.
LinkChoices(n, kinds, maxLinks) ==
  {S \in SUBSET ((1..n) \X kinds) : Cardinality(S) <= maxLinks}

MemberSetOf(n, S, v, gender, birthYear) ==
  [i \in 1..n |->
     Member(i,
            IF <<i, "parentId">> \in S THEN v[<<i, "parentId">>] ELSE None,
            IF <<i, "secondParentId">> \in S THEN v[<<i, "secondParentId">>] ELSE None,
            IF <<i, "spouseId">> \in S THEN v[<<i, "spouseId">>] ELSE None,
            gender[i], birthYear[i], 0)]

NoCall == [fn |-> "none"]

\* ------------------------------------------- deriver calls (parent links)
InitParents ==
  /\ \E n \in 0..NumMembers : \E S \in LinkChoices(n, ParentKinds, MaxParentLinks) :
       \E v \in [S -> MemberIds] :
         members = MemberSetOf(n, S, v, [i \in 1..n |-> "male"], [i \in 1..n |-> 1980])
  /\ call = NoCall
  /\ dialog = "closed"

CallGetAllDescendants ==
  /\ call' = [fn |-> "getAllDescendants",
              out |-> [id \in MemberIds |-> getAllDescendants(id, members, {})]]
  /\ UNCHANGED <<members, dialog>>

CallGetAllAncestors ==
  /\ call' = [fn |-> "getAllAncestors",
              out |-> [id \in MemberIds |-> getAllAncestors(id, members, {})]]
  /\ UNCHANGED <<members, dialog>>

CallGetSiblingsOf ==
  /\ call' = [fn |-> "getSiblingsOf",
              out |-> [id \in MemberIds |-> getSiblingsOf(id, members)]]
  /\ UNCHANGED <<members, dialog>>

CallGetChildrenOf ==
  /\ call' = [fn |-> "getChildrenOf",
              out |-> [id \in MemberIds |-> getChildrenOf(id, members)]]
  /\ UNCHANGED <<members, dialog>>

CallGetParentsOf ==
  /\ call' = [fn |-> "getParentsOf",
              out |-> [i \in DOMAIN members |-> getParentsOf(members[i], members)]]
  /\ UNCHANGED <<members, dialog>>

CallGetSpousesOf ==
  /\ call' = [fn |-> "getSpousesOf",
              out |-> [id \in MemberIds |-> getSpousesOf(id, members)]]
  /\ UNCHANGED <<members, dialog>>

\* ----------------------------------------- deriver calls (all link kinds)
\* the stored generation fields: all 0, or descending in array order
StoredGenerations(n) == {[i \in 1..n |-> 0], [i \in 1..n |-> 2 * (n - i) + 1]}

withGenerations(ms, generations) ==
  [i \in DOMAIN ms |-> [ms[i] EXCEPT !.generation = generations[i]]]

InitLinks ==
  /\ \E n \in 0..NumMembers : \E S \in LinkChoices(n, LinkKinds, MaxLinks) :
       \E v \in [S -> MemberIds] : \E generations \in StoredGenerations(n) :
         members = withGenerations(
                     MemberSetOf(n, S, v, [i \in 1..n |-> "male"], [i \in 1..n |-> 1980]),
                     generations)
  /\ call = NoCall
  /\ dialog = "closed"

CallGetSpouses ==
  /\ call' = [fn |-> "getSpouses",
              out |-> [id \in MemberIds |-> getSpouses(id, members)]]
  /\ UNCHANGED <<members, dialog>>

NextSpouses == CallGetSpousesOf \/ CallGetSpouses

SpecSpouses == InitLinks /\ [][NextSpouses]_vars

\* --------------------------------------------------- tree builder calls
CallTransformToTreeData ==
  /\ call' = [fn |-> "transformToTreeData",
              rootNodes |-> IF Len(members) = 0 THEN <<>> ELSE topLevelNodes(members),
              out |-> transformToTreeData(members)]
  /\ UNCHANGED <<members, dialog>>

CallTransformToTreeDataIndividual ==
  /\ call' = [fn |-> "transformToTreeDataIndividual",
              rootNodes |-> IF Len(members) = 0 THEN <<>>
                            ELSE topLevelNodesIndividual(members),
              out |-> transformToTreeDataIndividual(members)]
  /\ UNCHANGED <<members, dialog>>

NextTree == CallTransformToTreeData \/ CallTransformToTreeDataIndividual

SpecTree == InitLinks /\ [][NextTree]_vars

\* ------------------------------------------------- reference relations
\* ids of the members that have a parent slot in S
ChildIdsOf(S, ms) ==
  {ms[i].id : i \in {j \in DOMAIN ms : ms[j].parentId \in S \/ ms[j].secondParentId \in S}}

\* non-null parent ids of the members whose id is in S
ParentIdsOf(S, ms) ==
  UNION {{ms[i].parentId, ms[i].secondParentId} \ {None} :
           i \in {j \in DOMAIN ms : ms[j].id \in S}}

RECURSIVE DownClosure(_, _)
DownClosure(S, ms) ==
  LET T == S \cup ChildIdsOf(S, ms) IN IF T = S THEN S ELSE DownClosure(T, ms)

RECURSIVE UpClosure(_, _)
UpClosure(S, ms) ==
  LET T == S \cup ParentIdsOf(S, ms) IN IF T = S THEN S ELSE UpClosure(T, ms)

\* children, grandchildren, ... of id
TransitiveDescendants(id, ms) == DownClosure(ChildIdsOf({id}, ms), ms)

\* parents, grandparents, ... of id
TransitiveAncestors(id, ms) == UpClosure(ParentIdsOf({id}, ms), ms)

Acyclic(ms) == \A id \in idsOf(ms) : id \notin TransitiveDescendants(id, ms)

\* ------------------------------------------------------------ validators
\* ValidationResult; "" stands for an absent error or warning.
Valid == [isValid |-> TRUE, error |-> "", warning |-> ""]
Invalid(error) == [isValid |-> FALSE, error |-> error, warning |-> ""]

MIN_PARENT_AGE == 12

validateNotSelfParent(memberId, parentId, secondParentId) ==
  IF memberId # None /\ (parentId = memberId \/ secondParentId = memberId)
  THEN Invalid("selfParent") ELSE Valid

validateDifferentParents(parentId, secondParentId) ==
  IF parentId # None /\ secondParentId # None /\ parentId = secondParentId
  THEN Invalid("sameParents") ELSE Valid

validateNoCircularRelationship(newMemberId, parentId, secondParentId, ms) ==
  IF newMemberId = None THEN Valid
  ELSE LET descendants == getAllDescendants(newMemberId, ms, {})
       IN IF parentId # None /\ parentId \in descendants THEN Invalid("circular")
          ELSE IF secondParentId # None /\ secondParentId \in descendants
               THEN Invalid("circular")
               ELSE Valid

\* a warning with isValid false
laterGeneration(id, memberGeneration, ms) ==
  /\ id # None
  /\ find(id, ms) # <<>>
  /\ find(id, ms)[1].generation >= memberGeneration

validateGenerationConsistency(memberGeneration, parentId, secondParentId, ms) ==
  IF laterGeneration(parentId, memberGeneration, ms)
     \/ laterGeneration(secondParentId, memberGeneration, ms)
  THEN [isValid |-> FALSE, error |-> "", warning |-> "generation"]
  ELSE Valid

\* a variant that only rejects a child born before the parent
birthYearErrorsOlderOnly(childBirthYear, id, ms) ==
  IF id = None \/ find(id, ms) = <<>> THEN <<>>
  ELSE IF childBirthYear - find(id, ms)[1].birthYear < 0
       THEN <<"bornBeforeParent">> ELSE <<>>

\* errors pushed for one parent slot by validateBirthYearConsistency
birthYearErrors(childBirthYear, id, ms) ==
  IF id = None \/ find(id, ms) = <<>> THEN <<>>
  ELSE LET ageDiff == childBirthYear - find(id, ms)[1].birthYear
       IN IF ageDiff < 0 THEN <<"bornBeforeParent">>
          ELSE IF ageDiff < MIN_PARENT_AGE THEN <<"parentTooYoung">>
          ELSE <<>>

validateBirthYearConsistency(childBirthYear, parentId, secondParentId, ms) ==
  IF childBirthYear = None THEN Valid
  ELSE LET errors == birthYearErrors(childBirthYear, parentId, ms)
                     \o birthYearErrors(childBirthYear, secondParentId, ms)
       IN IF Len(errors) > 0 THEN Invalid(errors[1]) ELSE Valid

\* a variant that asks for one generation's gap whatever the distance
validateAncestorAgeOneGeneration(ancestorBirthYear, descendantId, ms, generationDiff) ==
  IF ancestorBirthYear = None \/ descendantId = None THEN Valid
  ELSE IF find(descendantId, ms) = <<>> THEN Valid
  ELSE LET actualAgeDiff == find(descendantId, ms)[1].birthYear - ancestorBirthYear
       IN IF actualAgeDiff < 0 THEN Invalid("ancestorYounger")
          ELSE IF actualAgeDiff < MIN_PARENT_AGE THEN Invalid("ancestorTooYoung")
          ELSE Valid

validateAncestorAge(ancestorBirthYear, descendantId, ms, generationDiff) ==
  IF ancestorBirthYear = None \/ descendantId = None THEN Valid
  ELSE IF find(descendantId, ms) = <<>> THEN Valid
  ELSE LET descendant == find(descendantId, ms)[1]
           minAgeDiff == MIN_PARENT_AGE * generationDiff
           actualAgeDiff == descendant.birthYear - ancestorBirthYear
       IN IF actualAgeDiff < 0 THEN Invalid("ancestorYounger")
          ELSE IF actualAgeDiff < minAgeDiff THEN Invalid("ancestorTooYoung")
          ELSE Valid

validateParentsSameGeneration(parentId, secondParentId, ms) ==
  IF parentId = None \/ secondParentId = None THEN Valid
  ELSE LET parent1 == find(parentId, ms)
           parent2 == find(secondParentId, ms)
       IN IF parent1 # <<>> /\ parent2 # <<>>
             /\ parent1[1].generation # parent2[1].generation
          THEN [isValid |-> TRUE, error |-> "", warning |-> "parentsGeneration"]
          ELSE Valid

validateHalfSiblingRelationship(parentId, secondParentId, ms, isHalfSibling) ==
  IF parentId = None THEN Valid
  ELSE IF secondParentId # None /\ areSpouses(parentId, secondParentId, ms)
          /\ isHalfSibling
       THEN Invalid("halfSibling")
       ELSE Valid

checkNewParentalRelationship(parentId, secondParentId, ms) ==
  IF parentId = None \/ secondParentId = None THEN Valid
  ELSE IF areSpouses(parentId, secondParentId, ms) THEN Valid
  ELSE LET parent1Spouses == getSpousesOf(parentId, ms)
           parent2Spouses == getSpousesOf(secondParentId, ms)
           warn(w) == [isValid |-> TRUE, error |-> "", warning |-> w]
       IN IF find(parentId, ms) = <<>> \/ find(secondParentId, ms) = <<>> THEN Valid
          ELSE IF Len(parent1Spouses) > 0 /\ Len(parent2Spouses) > 0
               THEN warn("newRelationshipBoth")
          ELSE IF Len(parent1Spouses) > 0 THEN warn("newRelationshipFirst")
          ELSE IF Len(parent2Spouses) > 0 THEN warn("newRelationshipSecond")
          ELSE Valid

\* a variant that leaves the member itself among the options
getValidParentOptionsWithSelf(memberId, ms, excludeId) ==
  IF memberId = None \/ find(memberId, ms) = <<>> THEN ms
  ELSE LET descendants == getAllDescendants(memberId, ms, {})
       IN SelectSeq(ms, LAMBDA m : /\ m.id \notin descendants
                                   /\ ~(excludeId # None /\ m.id = excludeId))

getValidParentOptions(memberId, ms, excludeId) ==
  IF memberId = None \/ find(memberId, ms) = <<>> THEN ms
  ELSE LET descendants == getAllDescendants(memberId, ms, {})
       IN SelectSeq(ms, LAMBDA m : /\ m.id # memberId
                                   /\ m.id \notin descendants
                                   /\ ~(excludeId # None /\ m.id = excludeId))

CallGetValidParentOptions ==
  /\ call' = [fn |-> "getValidParentOptions",
              out |-> [id \in MemberIds |-> getValidParentOptions(id, members, None)]]
  /\ UNCHANGED <<members, dialog>>

NextParents ==
  \/ CallGetAllDescendants \/ CallGetAllAncestors \/ CallGetSiblingsOf
  \/ CallGetChildrenOf \/ CallGetParentsOf \/ CallGetSpousesOf
  \/ CallGetValidParentOptions

SpecParents == InitParents /\ [][NextParents]_vars

\* errors.push / warnings.push of one validator's result
pushError(result) ==
  IF ~result.isValid /\ result.error # "" THEN <<result.error>> ELSE <<>>

pushWarning(result) == IF result.warning # "" THEN <<result.warning>> ELSE <<>>

\* memberType "" and relatedToId None stand for undefined.
runAllValidations(memberId, parentId, secondParentId, memberGeneration, ms, isHalfSibling, birthYear, memberType, relatedToId) ==
  LET halfSibResult ==
        validateHalfSiblingRelationship(parentId, secondParentId, ms, isHalfSibling)
  IN [errors |->
        pushError(validateNotSelfParent(memberId, parentId, secondParentId))
        \o pushError(validateDifferentParents(parentId, secondParentId))
        \o pushError(validateNoCircularRelationship(memberId, parentId, secondParentId, ms))
        \o pushError(halfSibResult)
        \o (IF birthYear # None
               /\ (memberType \in {"descendant", "sibling"}
                   \/ (memberType = "" /\ (parentId # None \/ secondParentId # None)))
            THEN pushError(validateBirthYearConsistency(birthYear, parentId,
                                                        secondParentId, ms))
            ELSE <<>>)
        \o (IF birthYear # None /\ memberType = "ancestor" /\ relatedToId # None
            THEN pushError(validateAncestorAge(birthYear, relatedToId, ms, 1))
            ELSE <<>>),
      warnings |->
        pushWarning(validateGenerationConsistency(memberGeneration, parentId,
                                                  secondParentId, ms))
        \o pushWarning(validateParentsSameGeneration(parentId, secondParentId, ms))
        \o pushWarning(halfSibResult)
        \o pushWarning(checkNewParentalRelationship(parentId, secondParentId, ms))]

\* ---------------------------------------------------------- member store
\* PUT /members/:id followed by the store's updateMember: one record replaced
\* (m.id === id ? { ...m, ...updates } : m)
put(ms, id, updates) ==
  [i \in DOMAIN ms |-> IF ms[i].id = id THEN updates @@ ms[i] ELSE ms[i]]

\* a key whose value is undefined is left out of the request body
optional(field, value) == IF value # None THEN field :> value ELSE <<>>

\* comparator of the store's addMember: generation, then birthYear
sortsBefore(a, b) ==
  IF a.generation # b.generation THEN a.generation < b.generation
  ELSE a.birthYear < b.birthYear

RECURSIVE insertSorted(_, _)

\* stable insertion: m goes before the first record that sorts after it
insertSorted(sorted, m) ==
  IF sorted = <<>> THEN <<m>>
  ELSE IF sortsBefore(m, Head(sorted)) THEN <<m>> \o sorted
  ELSE <<Head(sorted)>> \o insertSorted(Tail(sorted), m)

RECURSIVE sortMembers(_)

sortMembers(ms) ==
  IF ms = <<>> THEN <<>>
  ELSE insertSorted(sortMembers(SubSeq(ms, 1, Len(ms) - 1)), ms[Len(ms)])

addMember(ms, member) == sortMembers(Append(ms, member))

\* the two spouse follow-up writes of the edit dialogs, read from the
\* dialog's snapshot (existing) and written to the current records (ms)
spouseFollowUps(ms, existing, member, newSpouseId) ==
  LET oldSpouseId == member.spouseId
      oldSpouse == find(oldSpouseId, existing)
      ms1 == IF /\ oldSpouseId # None
                /\ oldSpouseId # newSpouseId
                /\ oldSpouse # <<>>
                /\ oldSpouse[1].spouseId = member.id
             THEN put(ms, oldSpouseId, [spouseId |-> None])
             ELSE ms
      newSpouse == find(newSpouseId, existing)
      relinks == /\ newSpouseId # None
                 /\ newSpouse # <<>>
                 /\ newSpouse[1].spouseId # member.id
      theirOldSpouse == IF relinks /\ newSpouse[1].spouseId # None
                        THEN find(newSpouse[1].spouseId, existing)
                        ELSE <<>>
      ms2 == IF theirOldSpouse # <<>> /\ theirOldSpouse[1].spouseId = newSpouseId
             THEN put(ms1, theirOldSpouse[1].id, [spouseId |-> None])
             ELSE ms1
  IN IF relinks
     THEN put(ms2, newSpouseId, [spouseId |-> member.id])
     ELSE ms2

\* for (const childId of removedChildren): the member leaves the parent
\* slots it holds in the snapshot
removeAsParent(ms, existing, memberId, removedChildren) ==
  [i \in DOMAIN ms |->
     LET child == find(ms[i].id, existing)
     IN IF ms[i].id \in removedChildren /\ child # <<>>
        THEN [ms[i] EXCEPT
                !.parentId = IF child[1].parentId = memberId THEN None ELSE @,
                !.secondParentId = IF child[1].secondParentId = memberId
                                   THEN None ELSE @]
        ELSE ms[i]]

\* for (const childId of addedChildren): the member takes the first parent
\* slot that is empty in the snapshot
addAsParent(ms, existing, memberId, addedChildren) ==
  [i \in DOMAIN ms |->
     LET child == find(ms[i].id, existing)
     IN IF ms[i].id \in addedChildren /\ child # <<>>
        THEN IF child[1].parentId = None THEN [ms[i] EXCEPT !.parentId = memberId]
             ELSE IF child[1].secondParentId = None
                  THEN [ms[i] EXCEPT !.secondParentId = memberId]
                  ELSE ms[i]
        ELSE ms[i]]

\* for (const siblingId of addedSiblings): the submitted parents are copied
\* to the sibling
shareParents(ms, existing, finalParentId, finalSecondParentId, addedSiblings) ==
  [i \in DOMAIN ms |->
     LET sibling == find(ms[i].id, existing)
     IN IF ms[i].id \in addedSiblings /\ sibling # <<>>
        THEN [ms[i] EXCEPT
                !.parentId = IF finalParentId # None
                                /\ sibling[1].parentId # finalParentId
                             THEN finalParentId ELSE @,
                !.secondParentId = IF finalSecondParentId # None
                                      /\ sibling[1].secondParentId # finalSecondParentId
                                   THEN finalSecondParentId ELSE @]
        ELSE ms[i]]

\* the generation effect of the unvalidated dialogs
calculatedGeneration(parentId, selectedChildrenIds, selectedSpouseId, existing, current) ==
  IF parentId # None
  THEN IF find(parentId, existing) # <<>>
       THEN find(parentId, existing)[1].generation + 1 ELSE current
  ELSE IF Len(selectedChildrenIds) > 0
  THEN IF find(selectedChildrenIds[1], existing) # <<>>
       THEN find(selectedChildrenIds[1], existing)[1].generation - 1 ELSE current
  ELSE IF selectedSpouseId # None
  THEN IF find(selectedSpouseId, existing) # <<>>
       THEN find(selectedSpouseId, existing)[1].generation ELSE current
  ELSE current

\* ids of a member list, in list order
RECURSIVE mapIds(_)
mapIds(ms) == IF ms = <<>> THEN <<>> ELSE <<Head(ms).id>> \o mapIds(Tail(ms))

\* ------------------------------------------------------- member dialogs
Genders == {"male", "female"}

\* two birth years: equal ones are less than MIN_PARENT_AGE apart, distinct
\* ones exactly MIN_PARENT_AGE apart
BirthYears == {1990, 1990 + MIN_PARENT_AGE}

MemberTypes == {"ancestor", "descendant", "sibling", "spouse"}

SubmitFns == {"EditSubmitValidated", "AddSubmitValidated", "EditSubmit", "AddSubmit"}

\* A dialog opened on an acyclic member set as the server lists it (ordered
\* by generation, then birth year), without self links or dangling links.
InitDialogs ==
  /\ \E n \in 0..NumMembers : \E S \in LinkChoices(n, LinkKinds, MaxDialogLinks) :
       \E v \in [S -> 1..n], birthYear \in [1..n -> BirthYears] :
         /\ \A slot \in S : v[slot] # slot[1]
         /\ \A i, j \in 1..n : i <= j => birthYear[i] <= birthYear[j]
         /\ members = MemberSetOf(n, S, v,
                                  [i \in 1..n |-> IF i % 2 = 1 THEN "male" ELSE "female"],
                                  birthYear)
         /\ Acyclic(members)
  /\ call = NoCall
  /\ dialog = "open"

\* a variant that also refuses a result with warnings
blocksSubmissionOnWarnings(validation) ==
  Len(validation.errors) > 0 \/ Len(validation.warnings) > 0

\* the guard at the head of the validated onSubmit handlers
blocksSubmission(validation) == Len(validation.errors) > 0

\* potentialSpouses of the validated edit dialog
potentialSpousesValidated(member, parentId, secondParentId, existing) ==
  SelectSeq(existing, LAMBDA m : /\ m.id # member.id
                                 /\ m.id # parentId /\ m.id # secondParentId
                                 /\ m.parentId # member.id
                                 /\ m.secondParentId # member.id)

\* onSubmit of the validated edit dialog.  The selects offer the current
\* value, None, and the filtered options; a spouse may have been picked
\* while no parent was selected.
EditSubmitValidated ==
  /\ dialog = "open"
  /\ \E i \in DOMAIN members :
       LET member == members[i]
           validParentOptions == idsOf(getValidParentOptions(member.id, members, None))
       IN \E parentId \in {None, member.parentId} \cup validParentOptions :
          \E secondParentId \in (IF parentId = None THEN {None}
                                 ELSE {None, member.secondParentId} \cup validParentOptions) :
          \E birthYear \in BirthYears, isHalfSibling \in BOOLEAN :
          \E selectedSpouseId \in {None, member.spouseId}
               \cup idsOf(potentialSpousesValidated(member, None, None, members)) :
            LET validation == runAllValidations(member.id, parentId, secondParentId,
                                                member.generation, members,
                                                isHalfSibling, birthYear, "", None)
                updated == put(members, member.id,
                               optional("parentId", parentId)
                               @@ optional("secondParentId", secondParentId)
                               @@ [birthYear |-> birthYear,
                                   spouseId |-> selectedSpouseId])
            IN /\ ~blocksSubmission(validation)
               /\ members' = spouseFollowUps(updated, members, member, selectedSpouseId)
               /\ call' = [fn |-> "EditSubmitValidated", memberId |-> member.id,
                           parentId |-> parentId, secondParentId |-> secondParentId,
                           birthYear |-> birthYear, errors |-> validation.errors]
               /\ dialog' = "closed"

\* onSubmit of the validated add dialog.  Parent selects are shown for
\* descendants and siblings only.
AddSubmitValidated ==
  /\ dialog = "open"
  /\ Len(members) < NumMembers
  /\ \E memberType \in MemberTypes, relatedToId \in {None} \cup idsOf(members) :
       LET relatedMember == find(relatedToId, members)
           siblingParents == IF relatedMember = <<>> THEN <<>>
                             ELSE getParentsOf(relatedMember[1], members)
           validParentOptions ==
             IF memberType \notin {"descendant", "sibling"} THEN {}
             ELSE IF memberType = "sibling" /\ siblingParents # <<>>
                  THEN idsOf(siblingParents)
                  ELSE idsOf(getValidParentOptions(None, members, None))
           generation ==
             IF relatedMember = <<>> THEN 0
             ELSE CASE memberType = "ancestor" -> relatedMember[1].generation - 1
                    [] memberType = "descendant" -> relatedMember[1].generation + 1
                    [] OTHER -> relatedMember[1].generation
       IN \E parentId \in {None} \cup validParentOptions :
          \E secondParentId \in (IF parentId = None THEN {None}
                                 ELSE {None} \cup validParentOptions) :
          \E birthYear \in BirthYears, gender \in Genders :
          \E isHalfSibling \in (IF memberType = "sibling" /\ relatedToId # None
                                THEN BOOLEAN ELSE {FALSE}) :
            LET validation == runAllValidations(None, parentId, secondParentId,
                                                generation, members, isHalfSibling,
                                                birthYear, memberType, relatedToId)
                newMember == Member(Len(members) + 1, parentId, secondParentId, None,
                                    gender, birthYear, generation)
                added == addMember(members, newMember)
            IN /\ ~blocksSubmission(validation)
               /\ members' =
                    IF memberType = "ancestor" /\ relatedMember # <<>>
                    THEN IF relatedMember[1].parentId = None
                         THEN put(added, relatedToId,
                                  [parentId |-> newMember.id])
                         ELSE IF relatedMember[1].secondParentId = None
                              THEN put(added, relatedToId,
                                       [secondParentId |-> newMember.id])
                              ELSE added
                    ELSE added
               /\ call' = [fn |-> "AddSubmitValidated", memberId |-> newMember.id,
                           parentId |-> parentId, secondParentId |-> secondParentId,
                           birthYear |-> birthYear, errors |-> validation.errors]
               /\ dialog' = "closed"

NextValidated == EditSubmitValidated \/ AddSubmitValidated

SpecValidated == InitDialogs /\ [][NextValidated]_vars

\* members of the given gender other than the one edited (None: a new member)
ofGender(gender, memberId, existing) ==
  idsOf(SelectSeq(existing, LAMBDA m : m.gender = gender /\ m.id # memberId))

\* members a child chip can be switched on for: not the member, fewer than
\* two parents in the snapshot
canAddParent(memberId, existing) ==
  idsOf(SelectSeq(existing, LAMBDA m : /\ m.id # memberId
                                       /\ (m.parentId = None \/ m.secondParentId = None)))

\* siblings of the edited member in the snapshot (either slot)
oldSiblingIds(member, existing) ==
  idsOf(SelectSeq(existing, LAMBDA m :
    /\ m.id # member.id
    /\ \/ member.parentId # None
          /\ (m.parentId = member.parentId \/ m.secondParentId = member.parentId)
       \/ member.secondParentId # None
          /\ (m.parentId = member.secondParentId
              \/ m.secondParentId = member.secondParentId)))

\* onSubmit of the edit dialog without validation.  A parent or spouse
\* select offers its current value, None, and the members that are not
\* selected children; a child chip is offered for members that are not the
\* selected parents or spouse; a sibling chip may have been switched on
\* before the other selections were made.  The follow-up writes are taken
\* to succeed.
EditSubmit ==
  /\ dialog = "open"
  /\ \E i \in DOMAIN members :
       LET member == members[i]
           existing == members
           oldChildren == getChildrenOf(member.id, existing)
           oldChildrenIds == idsOf(oldChildren)
       IN \E removedChildren \in SUBSET oldChildrenIds :
          \E addedChildren \in SUBSET (canAddParent(member.id, existing) \ oldChildrenIds) :
          \E addedSiblings \in SUBSET (idsOf(existing)
                                       \ ({member.id} \cup oldSiblingIds(member, existing))) :
            LET keptChildren == SelectSeq(oldChildren, LAMBDA m : m.id \notin removedChildren)
                selectedChildrenIds ==
                  mapIds(keptChildren)
                  \o mapIds(SelectSeq(existing, LAMBDA m : m.id \in addedChildren))
                selected == idsOf(keptChildren) \cup addedChildren
            IN \E parentId \in {None, member.parentId}
                    \cup (ofGender("male", member.id, existing) \ selected) :
               \E secondParentId \in {None, member.secondParentId}
                    \cup (ofGender("female", member.id, existing) \ selected) :
               \E selectedSpouseId \in {None, member.spouseId}
                    \cup (idsOf(existing) \ ({member.id} \cup selected)) :
               \E birthYear \in BirthYears :
                 LET generation == calculatedGeneration(parentId, selectedChildrenIds,
                                                        selectedSpouseId, existing,
                                                        member.generation)
                     updated == put(existing, member.id,
                                    optional("parentId", parentId)
                                    @@ optional("secondParentId", secondParentId)
                                    @@ [birthYear |-> birthYear,
                                        generation |-> generation,
                                        spouseId |-> selectedSpouseId])
                     spoused == spouseFollowUps(updated, existing, member, selectedSpouseId)
                     unparented == removeAsParent(spoused, existing, member.id, removedChildren)
                     parented == addAsParent(unparented, existing, member.id, addedChildren)
                 IN /\ addedChildren \cap {parentId, secondParentId, selectedSpouseId} = {}
                    /\ members' = shareParents(parented, existing, parentId,
                                               secondParentId, addedSiblings)
                    /\ call' = [fn |-> "EditSubmit", memberId |-> member.id,
                                parentId |-> parentId, secondParentId |-> secondParentId,
                                birthYear |-> birthYear,
                                errors |-> runAllValidations(member.id, parentId,
                                             secondParentId, generation, existing,
                                             FALSE, birthYear, "", None).errors]
                    /\ dialog' = "closed"

\* onSubmit of the add dialog without validation
AddSubmit ==
  /\ dialog = "open"
  /\ Len(members) < NumMembers
  /\ LET existing == members
     IN \E children \in SUBSET canAddParent(None, existing) :
        \E selectedSiblingIds \in SUBSET idsOf(existing) :
        \E parentId \in {None} \cup (ofGender("male", None, existing) \ children) :
        \E secondParentId \in {None} \cup (ofGender("female", None, existing) \ children) :
        \E selectedSpouseId \in {None} \cup (idsOf(existing) \ children) :
        \E birthYear \in BirthYears, gender \in Genders :
          LET selectedChildrenIds == mapIds(SelectSeq(existing, LAMBDA m : m.id \in children))
              generation == calculatedGeneration(parentId, selectedChildrenIds,
                                                 selectedSpouseId, existing, 0)
              newMember == Member(Len(existing) + 1, parentId, secondParentId,
                                  selectedSpouseId, gender, birthYear, generation)
              added == addMember(existing, newMember)
              spouseMember == find(selectedSpouseId, existing)
              spoused == IF /\ selectedSpouseId # None
                            /\ spouseMember # <<>>
                            /\ spouseMember[1].spouseId = None
                         THEN put(added, selectedSpouseId,
                                  [spouseId |-> newMember.id])
                         ELSE added
              parented == addAsParent(spoused, existing, newMember.id, children)
          IN /\ members' = shareParents(parented, existing, parentId, secondParentId,
                                        selectedSiblingIds)
             /\ call' = [fn |-> "AddSubmit", memberId |-> newMember.id,
                         parentId |-> parentId, secondParentId |-> secondParentId,
                         birthYear |-> birthYear,
                         errors |-> runAllValidations(None, parentId, secondParentId,
                                      generation, existing, FALSE, birthYear,
                                      "", None).errors]
             /\ dialog' = "closed"

NextDialogs == EditSubmitValidated \/ AddSubmitValidated \/ EditSubmit \/ AddSubmit

SpecDialogs == InitDialogs /\ [][NextDialogs]_vars

\* ------------------------------------------ member dialogs, write by write
\* A follow-up write is [id, updates]: PUT /members/:id with body updates.
\* The writes an onSubmit handler issues after its primary write depend on
\* the dialog's snapshot (existingMembers) and on the selections only,
\* never on a response, so they are listed when the handler starts.
write(id, updates) == [id |-> id, updates |-> updates]

\* a variant that only points the new spouse at the member
spouseWritesRelinkOnly(existing, member, newSpouseId) ==
  LET newSpouse == find(newSpouseId, existing)
  IN IF newSpouseId # None /\ newSpouse # <<>> /\ newSpouse[1].spouseId # member.id
     THEN <<write(newSpouseId, [spouseId |-> member.id])>>
     ELSE <<>>

\* the spouse follow-ups of the edit dialogs, in the order they are issued
spouseWrites(existing, member, newSpouseId) ==
  LET oldSpouseId == member.spouseId
      oldSpouse == find(oldSpouseId, existing)
      newSpouse == find(newSpouseId, existing)
      relinks == /\ newSpouseId # None
                 /\ newSpouse # <<>>
                 /\ newSpouse[1].spouseId # member.id
      theirOldSpouse == IF relinks /\ newSpouse[1].spouseId # None
                        THEN find(newSpouse[1].spouseId, existing)
                        ELSE <<>>
  IN (IF /\ oldSpouseId # None
         /\ oldSpouseId # newSpouseId
         /\ oldSpouse # <<>>
         /\ oldSpouse[1].spouseId = member.id
      THEN <<write(oldSpouseId, [spouseId |-> None])>> ELSE <<>>)
     \o (IF theirOldSpouse # <<>> /\ theirOldSpouse[1].spouseId = newSpouseId
         THEN <<write(theirOldSpouse[1].id, [spouseId |-> None])>> ELSE <<>>)
     \o (IF relinks THEN <<write(newSpouseId, [spouseId |-> member.id])>> ELSE <<>>)

\* the spouse follow-up of the add dialog: only a spouse without a spouse
\* is pointed at the new member
spouseWriteOfAdd(existing, newMemberId, selectedSpouseId) ==
  LET spouseMember == find(selectedSpouseId, existing)
  IN IF /\ selectedSpouseId # None
        /\ spouseMember # <<>>
        /\ spouseMember[1].spouseId = None
     THEN <<write(selectedSpouseId, [spouseId |-> newMemberId])>>
     ELSE <<>>

RECURSIVE removedChildrenWrites(_, _)
\* for (const childId of removedChildren), children given as records of
\* the snapshot
removedChildrenWrites(children, memberId) ==
  IF children = <<>> THEN <<>>
  ELSE LET child == Head(children)
           updateData ==
             (IF child.parentId = memberId THEN "parentId" :> None ELSE <<>>)
             @@ (IF child.secondParentId = memberId THEN "secondParentId" :> None
                 ELSE <<>>)
       IN (IF DOMAIN updateData # {} THEN <<write(child.id, updateData)>> ELSE <<>>)
          \o removedChildrenWrites(Tail(children), memberId)

RECURSIVE addedChildrenWrites(_, _)
\* for (const childId of addedChildren / selectedChildrenIds)
addedChildrenWrites(children, memberId) ==
  IF children = <<>> THEN <<>>
  ELSE LET child == Head(children)
       IN (IF child.parentId = None
           THEN <<write(child.id, [parentId |-> memberId])>>
           ELSE IF child.secondParentId = None
                THEN <<write(child.id, [secondParentId |-> memberId])>>
                ELSE <<>>)
          \o addedChildrenWrites(Tail(children), memberId)

RECURSIVE siblingWrites(_, _, _)
\* for (const siblingId of addedSiblings / selectedSiblingIds)
siblingWrites(siblings, finalParentId, finalSecondParentId) ==
  IF siblings = <<>> THEN <<>>
  ELSE LET sibling == Head(siblings)
           siblingUpdateData ==
             (IF finalParentId # None /\ sibling.parentId # finalParentId
              THEN "parentId" :> finalParentId ELSE <<>>)
             @@ (IF finalSecondParentId # None
                    /\ sibling.secondParentId # finalSecondParentId
                 THEN "secondParentId" :> finalSecondParentId ELSE <<>>)
       IN (IF DOMAIN siblingUpdateData # {}
           THEN <<write(sibling.id, siblingUpdateData)>> ELSE <<>>)
          \o siblingWrites(Tail(siblings), finalParentId, finalSecondParentId)

\* the members of the snapshot with the given ids, in array order
pick(existing, ids) == SelectSeq(existing, LAMBDA m : m.id \in ids)

Outcomes == {"success", "failure", "throws"}

\* the handler after its primary request: on success the store is updated
\* and the follow-ups are pending; a non-success response shows its message
\* and returns, an exception shows the failure toast, and in both cases the
\* dialog stays open
afterPrimary(outcome, fn, memberId, spouseId, existing, written, followUps) ==
  /\ members' = IF outcome = "success" THEN written ELSE existing
  /\ call' = [fn |-> fn, memberId |-> memberId, spouseId |-> spouseId,
              existing |-> existing,
              pending |-> IF outcome = "success" THEN followUps ELSE <<>>,
              failed |-> <<>>,
              toast |-> IF outcome = "success" THEN ""
                        ELSE IF outcome = "failure" THEN "error.message"
                        ELSE "failed"]
  /\ dialog' = IF outcome = "success" THEN "submitting" ELSE "open"

\* EditMemberDialog.onSubmit up to its primary write; the selections are
\* those of EditSubmit.  One submission of the opened dialog is followed.
EditBegin ==
  /\ dialog = "open" /\ call = NoCall
  /\ \E i \in DOMAIN members :
       LET member == members[i]
           existing == members
           oldChildren == getChildrenOf(member.id, existing)
           oldChildrenIds == idsOf(oldChildren)
       IN \E removedChildren \in SUBSET oldChildrenIds :
          \E addedChildren \in SUBSET (canAddParent(member.id, existing) \ oldChildrenIds) :
          \E addedSiblings \in SUBSET (idsOf(existing)
                                       \ ({member.id} \cup oldSiblingIds(member, existing))) :
            LET keptChildren == SelectSeq(oldChildren, LAMBDA m : m.id \notin removedChildren)
                selectedChildrenIds ==
                  mapIds(keptChildren) \o mapIds(pick(existing, addedChildren))
                selected == idsOf(keptChildren) \cup addedChildren
            IN \E parentId \in {None, member.parentId}
                    \cup (ofGender("male", member.id, existing) \ selected) :
               \E secondParentId \in {None, member.secondParentId}
                    \cup (ofGender("female", member.id, existing) \ selected) :
               \E selectedSpouseId \in {None, member.spouseId}
                    \cup (idsOf(existing) \ ({member.id} \cup selected)) :
               \E outcome \in Outcomes :
                 LET generation == calculatedGeneration(parentId, selectedChildrenIds,
                                                        selectedSpouseId, existing,
                                                        member.generation)
                     written == put(existing, member.id,
                                    optional("parentId", parentId)
                                    @@ optional("secondParentId", secondParentId)
                                    @@ [generation |-> generation,
                                        spouseId |-> selectedSpouseId])
                     followUps ==
                       spouseWrites(existing, member, selectedSpouseId)
                       \o removedChildrenWrites(pick(existing, removedChildren), member.id)
                       \o addedChildrenWrites(pick(existing, addedChildren), member.id)
                       \o siblingWrites(pick(existing, addedSiblings), parentId,
                                        secondParentId)
                 IN /\ addedChildren \cap {parentId, secondParentId, selectedSpouseId} = {}
                    /\ afterPrimary(outcome, "EditMemberDialog.onSubmit", member.id,
                                    selectedSpouseId, existing, written, followUps)

\* onSubmit of the validated edit dialog up to its primary write; the
\* selections are those of EditSubmitValidated
EditValidatedBegin ==
  /\ dialog = "open" /\ call = NoCall
  /\ \E i \in DOMAIN members :
       LET member == members[i]
           existing == members
           validParentOptions == idsOf(getValidParentOptions(member.id, existing, None))
       IN \E parentId \in {None, member.parentId} \cup validParentOptions :
          \E secondParentId \in (IF parentId = None THEN {None}
                                 ELSE {None, member.secondParentId} \cup validParentOptions) :
          \E selectedSpouseId \in {None, member.spouseId}
               \cup idsOf(potentialSpousesValidated(member, None, None, existing)) :
          \E outcome \in Outcomes :
            LET validation == runAllValidations(member.id, parentId, secondParentId,
                                                member.generation, existing,
                                                FALSE, member.birthYear, "", None)
                written == put(existing, member.id,
                               optional("parentId", parentId)
                               @@ optional("secondParentId", secondParentId)
                               @@ [spouseId |-> selectedSpouseId])
            IN /\ ~blocksSubmission(validation)
               /\ afterPrimary(outcome, "EditMemberDialogValidated.onSubmit", member.id,
                               selectedSpouseId, existing, written,
                               spouseWrites(existing, member, selectedSpouseId))

\* AddMemberDialog.onSubmit (spouse/children/siblings variant) up to its
\* primary write; the selections are those of AddSubmit
AddBegin ==
  /\ dialog = "open" /\ call = NoCall
  /\ Len(members) < NumMembers
  /\ LET existing == members
     IN \E children \in SUBSET canAddParent(None, existing) :
        \E selectedSiblingIds \in SUBSET idsOf(existing) :
        \E parentId \in {None} \cup (ofGender("male", None, existing) \ children) :
        \E secondParentId \in {None} \cup (ofGender("female", None, existing) \ children) :
        \E selectedSpouseId \in {None} \cup (idsOf(existing) \ children) :
        \E gender \in Genders, outcome \in Outcomes :
          LET selectedChildrenIds == mapIds(pick(existing, children))
              generation == calculatedGeneration(parentId, selectedChildrenIds,
                                                 selectedSpouseId, existing, 0)
              newMember == Member(Len(existing) + 1, parentId, secondParentId,
                                  selectedSpouseId, gender, 1990 + MIN_PARENT_AGE,
                                  generation)
              followUps ==
                spouseWriteOfAdd(existing, newMember.id, selectedSpouseId)
                \o addedChildrenWrites(pick(existing, children), newMember.id)
                \o siblingWrites(pick(existing, selectedSiblingIds), parentId,
                                 secondParentId)
          IN afterPrimary(outcome, "AddMemberDialog.onSubmit", newMember.id,
                          selectedSpouseId, existing, addMember(existing, newMember),
                          followUps)

\* a variant that updates the store whatever the response is
storeAfterAnyResponse(outcome, ms, next) == put(ms, next.id, next.updates)

\* if (updateResponse.success) updateMember(id, ...)
storeAfter(outcome, ms, next) ==
  IF outcome = "success" THEN put(ms, next.id, next.updates) ELSE ms

\* one follow-up request: on success the store takes the update, on a
\* non-success response the handler goes on to the next request, on an
\* exception it shows the failure toast and leaves the rest undone
FollowUp ==
  /\ dialog = "submitting" /\ call.pending # <<>>
  /\ \E outcome \in Outcomes :
       LET next == Head(call.pending)
       IN /\ members' = storeAfter(outcome, members, next)
          /\ call' = [call EXCEPT
                        !.pending = IF outcome = "throws" THEN <<>> ELSE Tail(@),
                        !.failed = IF outcome = "success" THEN @ ELSE Append(@, next),
                        !.toast = IF outcome = "throws" THEN "failed" ELSE @]
          /\ dialog' = IF outcome = "throws" THEN "open" ELSE dialog

\* the end of the handler: the success toast, and the dialog closes
FlowEnd ==
  /\ dialog = "submitting" /\ call.pending = <<>>
  /\ call' = [call EXCEPT !.toast = "success"]
  /\ dialog' = "closed"
  /\ UNCHANGED members

NextFlows == EditBegin \/ EditValidatedBegin \/ AddBegin \/ FollowUp \/ FlowEnd

\* a dialog opened on an acyclic member set, all members born the same year
InitFlows ==
  /\ \E n \in 0..NumMembers : \E S \in LinkChoices(n, LinkKinds, MaxDialogLinks) :
       \E v \in [S -> 1..n] :
         /\ \A slot \in S : v[slot] # slot[1]
         /\ members = MemberSetOf(n, S, v,
                                  [i \in 1..n |-> IF i % 2 = 1 THEN "male" ELSE "female"],
                                  [i \in 1..n |-> 1990])
         /\ Acyclic(members)
  /\ call = NoCall
  /\ dialog = "open"

SpecFlows == InitFlows /\ [][NextFlows]_vars

\* ------------------------------------------------------ validator calls
\* birth years a form proposes; None is an empty field
ProposedBirthYears == {None, 1990, 1999}

\* birth year and generation stored for member i: the list is ordered by
\* generation, then birth year, as the server returns it
storedBirthYear(i) == IF i = 1 THEN 1978 ELSE IF i = 2 THEN 1990 ELSE 2014
storedGeneration(i) == IF i <= 2 THEN 0 ELSE 1

\* generation the add dialog sets for a member type and a related member
generationFor(memberType, relatedToId, ms) ==
  LET relatedMember == find(relatedToId, ms)
  IN IF relatedMember = <<>> THEN 0
     ELSE CASE memberType = "ancestor" -> relatedMember[1].generation - 1
            [] memberType = "descendant" -> relatedMember[1].generation + 1
            [] OTHER -> relatedMember[1].generation

\* arguments of a runAllValidations call without a member-type hint, as
\* the edit dialog makes it: the generation is the member's own
EditRequests(ms) ==
  {[fn |-> "request", site |-> "runAllValidations", memberId |-> memberId,
    parentId |-> parentId, secondParentId |-> secondParentId,
    memberGeneration |-> IF find(memberId, ms) = <<>> THEN 0
                         ELSE find(memberId, ms)[1].generation,
    isHalfSibling |-> isHalfSibling, birthYear |-> birthYear,
    memberType |-> "", relatedToId |-> None] :
     memberId \in {None} \cup MemberIds, parentId \in {None} \cup MemberIds,
     secondParentId \in {None} \cup MemberIds, isHalfSibling \in BOOLEAN,
     birthYear \in ProposedBirthYears}

\* arguments of a runAllValidations call with a member-type hint, as the
\* add dialog makes it: no member id yet, the half-sibling box is offered
\* for siblings
AddRequests(ms) ==
  UNION {
    {[fn |-> "request", site |-> "runAllValidationsTyped", memberId |-> None,
      parentId |-> parentId, secondParentId |-> secondParentId,
      memberGeneration |-> generationFor(memberType, relatedToId, ms),
      isHalfSibling |-> isHalfSibling, birthYear |-> birthYear,
      memberType |-> memberType, relatedToId |-> relatedToId] :
       relatedToId \in {None} \cup MemberIds,
       parentId \in {None} \cup MemberIds, secondParentId \in {None} \cup MemberIds,
       isHalfSibling \in IF memberType = "sibling" THEN BOOLEAN ELSE {FALSE},
       birthYear \in ProposedBirthYears} :
    memberType \in MemberTypes}

AncestorAgeRequests ==
  {[fn |-> "request", site |-> "validateAncestorAge", birthYear |-> ancestorBirthYear,
    relatedToId |-> descendantId, generationDiff |-> generationDiff] :
     ancestorBirthYear \in ProposedBirthYears, descendantId \in {None} \cup MemberIds,
     generationDiff \in 1..MaxGenerationDiff}

\* Member sets with parent links only (a link may be dangling, a self link
\* or part of a cycle), and the arguments of one validator call.
InitValidations ==
  /\ \E n \in 0..NumMembers : \E S \in LinkChoices(n, ParentKinds, MaxDialogLinks) :
       \E v \in [S -> MemberIds] :
         members = [i \in 1..n |->
                      [MemberSetOf(n, S, v, [j \in 1..n |-> "male"],
                                   [j \in 1..n |-> storedBirthYear(j)])[i]
                         EXCEPT !.generation = storedGeneration(i)]]
  /\ call \in EditRequests(members) \cup AddRequests(members) \cup AncestorAgeRequests
  /\ dialog = "closed"

\* what a validation effect keeps of one runAllValidations call
validationCall(request, ms) ==
  LET validation == runAllValidations(request.memberId, request.parentId,
                                      request.secondParentId, request.memberGeneration,
                                      ms, request.isHalfSibling, request.birthYear,
                                      request.memberType, request.relatedToId)
  IN [fn |-> "runAllValidations", errors |-> validation.errors,
      warnings |-> validation.warnings, blocked |-> blocksSubmission(validation)]
     @@ request

CallRunAllValidations ==
  /\ call.fn = "request" /\ call.site = "runAllValidations"
  /\ call' = validationCall(call, members)
  /\ UNCHANGED <<members, dialog>>

CallRunAllValidationsTyped ==
  /\ call.fn = "request" /\ call.site = "runAllValidationsTyped"
  /\ call' = validationCall(call, members)
  /\ UNCHANGED <<members, dialog>>

CallValidateAncestorAge ==
  /\ call.fn = "request" /\ call.site = "validateAncestorAge"
  /\ call' = [fn |-> "validateAncestorAge",
              out |-> validateAncestorAge(call.birthYear, call.relatedToId, members,
                                          call.generationDiff)]
             @@ call
  /\ UNCHANGED <<members, dialog>>

NextValidations ==
  CallRunAllValidations \/ CallRunAllValidationsTyped \/ CallValidateAncestorAge

SpecValidations == InitValidations /\ [][NextValidations]_vars

\* ------------------------------------------------------------- claims
\* C1: after an edit or an addition that the validators let through, made
\* on an acyclic member set, no member is its own descendant.
C1_NoSelfDescendant ==
  call.fn \in {"EditSubmitValidated", "AddSubmitValidated"} =>
    \A id \in idsOf(members) : id \notin TransitiveDescendants(id, members)

\* C2: on an acyclic member set getAllDescendants(id) is the full
\* transitive closure of the child relation from id, without id itself.
C2_DescendantsAreClosure ==
  (call.fn = "getAllDescendants" /\ Acyclic(members)) =>
     \A id \in MemberIds : call.out[id] = TransitiveDescendants(id, members) \ {id}

\* C3: on an acyclic member set getAllAncestors(id) is the set of all ids
\* reachable by repeatedly following parentId/secondParentId, without id.
C3_AncestorsAreClosure ==
  (call.fn = "getAllAncestors" /\ Acyclic(members)) =>
     \A id \in idsOf(members) : call.out[id] = TransitiveAncestors(id, members) \ {id}

SeqIds(s) == {s[i].id : i \in DOMAIN s}
NoDuplicates(s) == \A i, j \in DOMAIN s : s[i].id = s[j].id => i = j

\* C4: for a member with both parent slots set, another member is a full
\* sibling iff both of the member's parent ids are among its slots, a half
\* sibling iff one but not both are, the lists are disjoint and hold each
\* member at most once, and never the member itself.
C4_SiblingsPartition ==
  call.fn = "getSiblingsOf" =>
    \A i \in DOMAIN members :
      LET m == members[i]
          P == {m.parentId, m.secondParentId}
          full == call.out[m.id].fullSiblings
          half == call.out[m.id].halfSiblings
      IN (m.parentId # None /\ m.secondParentId # None) =>
           /\ \A j \in DOMAIN members : j # i =>
                 LET S == {members[j].parentId, members[j].secondParentId} IN
                 /\ (members[j].id \in SeqIds(full)) <=> (P \subseteq S)
                 /\ (members[j].id \in SeqIds(half)) <=>
                      (~(P \subseteq S) /\ P \cap S # {})
           /\ SeqIds(full) \cap SeqIds(half) = {}
           /\ m.id \notin SeqIds(full) \cup SeqIds(half)
           /\ NoDuplicates(full) /\ NoDuplicates(half)

\* a member with two distinct parents has both a full and a half sibling
C4_Witness ==
  /\ call.fn = "getSiblingsOf"
  /\ \E i \in DOMAIN members :
       /\ members[i].parentId # None /\ members[i].secondParentId # None
       /\ members[i].parentId # members[i].secondParentId
       /\ call.out[members[i].id].fullSiblings # <<>>
       /\ call.out[members[i].id].halfSiblings # <<>>

\* some member has a and b in its two parent slots
SharedChild(a, b, ms) ==
  \E i \in DOMAIN ms : {ms[i].parentId, ms[i].secondParentId} = {a, b}

\* C5: the spouse relation derived from shared children is symmetric, for
\* getSpousesOf and for the tree builder's getSpouses: if some child has
\* members a and b in its two parent slots and b is returned for a, then a
\* is returned for b.
C5_SpousesSymmetric ==
  call.fn \in {"getSpousesOf", "getSpouses"} =>
    \A a, b \in idsOf(members) :
      (SharedChild(a, b, members) /\ b \in SeqIds(call.out[a])) =>
         a \in SeqIds(call.out[b])

\* two distinct members share a child and each is returned for the other
C5_Witness ==
  /\ call.fn \in {"getSpousesOf", "getSpouses"}
  /\ \E a, b \in idsOf(members) :
       /\ a # b /\ SharedChild(a, b, members)
       /\ b \in SeqIds(call.out[a]) /\ a \in SeqIds(call.out[b])

\* the members that are id's spouseId target, or have spouseId = id, or are
\* the other parent of a child of id
SpouseUnion(id, ms) ==
  {x \in idsOf(ms) :
     \/ \E i \in DOMAIN ms : ms[i].id = id /\ ms[i].spouseId = x
     \/ \E i \in DOMAIN ms : ms[i].id = x /\ ms[i].spouseId = id
     \/ SharedChild(id, x, ms)}

\* C6: both spouse derivers return exactly the union of the explicit
\* spouseId links (both directions) and the partners by shared children,
\* each member at most once.
C6_SpousesAreUnion ==
  call.fn \in {"getSpousesOf", "getSpouses"} =>
    \A id \in MemberIds :
      /\ SeqIds(call.out[id]) = SpouseUnion(id, members)
      /\ NoDuplicates(call.out[id])

\* ------------------------------------------------ tree builder claims
RECURSIVE TreeIds(_)
RECURSIVE ForestIds(_)
\* the ids of the nodes of a tree, in preorder, with repetitions
TreeIds(node) == <<node.id>> \o ForestIds(node.children)
ForestIds(nodes) ==
  IF nodes = <<>> THEN <<>> ELSE TreeIds(Head(nodes)) \o ForestIds(Tail(nodes))

Distinct(s) == \A i, j \in DOMAIN s : s[i] = s[j] => i = j
Range(s) == {s[i] : i \in DOMAIN s}

TreeFns == {"transformToTreeData", "transformToTreeDataIndividual"}

\* members without a parent inside the member set
RootCandidates(ms) ==
  {ms[i].id : i \in {j \in DOMAIN ms :
      ms[j].parentId \notin idsOf(ms) /\ ms[j].secondParentId \notin idsOf(ms)}}

Lineage(r, ms) == ({r} \cup TransitiveDescendants(r, ms)) \cap idsOf(ms)

\* a and b are linked as parent and child or as spouses
Related(a, b, ms) ==
  \/ a \in ChildIdsOf({b}, ms) \/ b \in ChildIdsOf({a}, ms)
  \/ a \in SpouseUnion(b, ms) \/ b \in SpouseUnion(a, ms)

RECURSIVE Component(_, _)
Component(S, ms) ==
  LET T == S \cup {b \in idsOf(ms) : \E a \in S : Related(a, b, ms)}
  IN IF T = S THEN S ELSE Component(T, ms)

\* one connected family: every member is linked to every other through
\* parent, child and spouse links
Connected(ms) == ms # <<>> /\ Component({ms[1].id}, ms) = idsOf(ms)

\* a single founder: exactly one member has no parent inside the set
SingleFounder(ms) == Cardinality(RootCandidates(ms)) = 1

IsRoundTrip(out, ms) ==
  /\ Len(out) = 1 /\ out[1].id # RootId
  /\ Distinct(TreeIds(out[1]))
  /\ Range(TreeIds(out[1])) = idsOf(ms)

\* C7 as stated, a single lineage being one connected family: the result
\* is one member node whose node ids are the input ids, each exactly once.
C7_RoundTripConnected ==
  (call.fn = "transformToTreeData" /\ members # <<>> /\ Acyclic(members)
     /\ Connected(members)) => IsRoundTrip(call.out, members)

\* C7 amended: on a non-empty acyclic member set with a single founder
\* (exactly one member without a parent inside the set) the result is one
\* member node whose node ids are the input ids, each exactly once.
C7_RoundTripSingleFounder ==
  (call.fn = "transformToTreeData" /\ members # <<>> /\ Acyclic(members)
     /\ SingleFounder(members)) => IsRoundTrip(call.out, members)

\* a founder with a child and a grandchild, all three nodes of the tree
C7_Witness ==
  /\ call.fn = "transformToTreeData" /\ Len(members) = NumMembers
  /\ Acyclic(members) /\ SingleFounder(members)
  /\ Len(call.out) = 1 /\ Len(call.out[1].children) = 1
  /\ Len(call.out[1].children[1].children) >= 1

\* an acyclic set with two root members whose lineages cover the set, share
\* no member and are not linked by any spouse link
TwoDisjointLineages(ms) ==
  \E r1, r2 \in RootCandidates(ms) :
     /\ Acyclic(ms)
     /\ r1 # r2 /\ RootCandidates(ms) = {r1, r2}
     /\ Lineage(r1, ms) \cap Lineage(r2, ms) = {}
     /\ Lineage(r1, ms) \cup Lineage(r2, ms) = idsOf(ms)
     /\ \A a \in Lineage(r1, ms), b \in Lineage(r2, ms) : ~Related(a, b, ms)

IsVirtualRoot(node) == node.id = RootId /\ node.generation = -1

\* C8: the result is the top-level root itself when there is exactly one,
\* otherwise the virtual root (id 'root', generation -1) over exactly the
\* top-level roots; two disjoint lineages give a virtual root with exactly
\* two children.
C8_VirtualRoot ==
  (call.fn \in TreeFns /\ members # <<>>) =>
    /\ Len(call.out) = 1
    /\ Len(call.rootNodes) = 1 => call.out[1] = call.rootNodes[1]
    /\ Len(call.rootNodes) # 1 =>
         /\ IsVirtualRoot(call.out[1])
         /\ call.out[1].children = call.rootNodes
         /\ \A k \in DOMAIN call.rootNodes : call.rootNodes[k].id # RootId
    /\ TwoDisjointLineages(members) =>
         IsVirtualRoot(call.out[1]) /\ Len(call.out[1].children) = 2

\* C9: transformToTreeData returns a value for every member set (cycles,
\* self-parents, dangling parents, self-spouses included), null exactly
\* when the set is empty, and it builds at most one subtree per member
\* outside the pass over the leftover members.
C9_Total ==
  call.fn = "transformToTreeData" =>
    /\ (call.out = <<>>) <=> (members = <<>>)
    /\ call.out # <<>> => Len(TreeIds(call.out[1])) <= 2 * Len(members) + 1

\* a member set whose members all lie on a parent cycle gets a tree
C9_Witness ==
  /\ call.fn = "transformToTreeData" /\ Len(members) >= 2
  /\ RootCandidates(members) = {}
  /\ call.out # <<>> /\ call.out[1].id # RootId

\* ------------------------------------------------------ dialog claims
\* C10: whenever a dialog has issued its primary write (POST /members or
\* PUT /members/:id), runAllValidations on the submitted parents and birth
\* year against the member set the dialog was opened on returns no error.
C10_PrimaryWriteValidated ==
  call.fn \in SubmitFns => call.errors = <<>>

\* -------------------------------------------- relationship classifier
\* a variant that gives the feminine label when the gender is not male
byGenderFeminineDefault(gender, masculine, feminine) ==
  IF gender = "male" THEN masculine ELSE feminine

\* isMale ? masculine : isFemale ? feminine : masculine; "" is an absent gender
byGender(gender, masculine, feminine) ==
  IF gender = "male" THEN masculine
  ELSE IF gender = "female" THEN feminine
  ELSE masculine

calculateRelationship(memberType, gender, generationDiff, isHalfSibling) ==
  CASE memberType = "ancestor" ->
         IF generationDiff = 1 THEN byGender(gender, "father", "mother")
         ELSE IF generationDiff = 2 THEN byGender(gender, "grandfather", "grandmother")
         ELSE IF generationDiff = 3
              THEN byGender(gender, "great-grandfather", "great-grandmother")
         ELSE byGender(gender, "great-great-grandfather", "great-great-grandmother")
    [] memberType = "descendant" ->
         IF generationDiff = 1 THEN byGender(gender, "son", "daughter")
         ELSE IF generationDiff = 2 THEN byGender(gender, "grandson", "granddaughter")
         ELSE IF generationDiff = 3
              THEN byGender(gender, "great-grandson", "great-granddaughter")
         ELSE byGender(gender, "great-great-grandson", "great-great-granddaughter")
    [] memberType = "sibling" ->
         IF isHalfSibling THEN byGender(gender, "half-brother", "half-sister")
         ELSE byGender(gender, "brother", "sister")
    [] memberType = "spouse" -> "spouse"
    [] OTHER -> "other"

ClassifiedGenders == {"male", "female", "other", ""}

ClassifierRequests ==
  {[fn |-> "request", memberType |-> memberType, gender |-> gender,
    generationDiff |-> generationDiff, isHalfSibling |-> isHalfSibling] :
     memberType \in MemberTypes, gender \in ClassifiedGenders,
     generationDiff \in 1..MaxGenerationDiff, isHalfSibling \in BOOLEAN}

InitClassifier ==
  /\ members = <<>>
  /\ call \in ClassifierRequests
  /\ dialog = "closed"

CallCalculateRelationship ==
  /\ call.fn = "request"
  /\ call' = [fn |-> "calculateRelationship",
              out |-> calculateRelationship(call.memberType, call.gender,
                                            call.generationDiff, call.isHalfSibling)]
             @@ call
  /\ UNCHANGED <<members, dialog>>

NextClassifier == CallCalculateRelationship

SpecClassifier == InitClassifier /\ [][NextClassifier]_vars

\* --------------------------------------------------- validator claims
ProposedParents(c) == {c.parentId, c.secondParentId} \ {None}
ResolvedParents(c, ms) == ProposedParents(c) \cap idsOf(ms)

\* the conditions of the six blocking checks, stated on the arguments
SelfParentCase(c) == c.memberId # None /\ c.memberId \in ProposedParents(c)

SameParentsCase(c) == c.parentId # None /\ c.parentId = c.secondParentId

CycleCase(c, ms) ==
  /\ c.memberId # None
  /\ ProposedParents(c) \cap TransitiveDescendants(c.memberId, ms) # {}

HalfSiblingCase(c, ms) ==
  /\ c.isHalfSibling
  /\ c.parentId # None /\ c.secondParentId # None
  /\ SharedChild(c.parentId, c.secondParentId, ms)

BirthYearContext(c) ==
  /\ c.birthYear # None
  /\ \/ c.memberType \in {"descendant", "sibling"}
     \/ c.memberType = "" /\ ProposedParents(c) # {}

\* years between the birth of member id and the proposed birth year
Gap(c, id, ms) == c.birthYear - find(id, ms)[1].birthYear

BirthYearCase(c, ms) ==
  BirthYearContext(c) /\ \E id \in ResolvedParents(c, ms) : Gap(c, id, ms) < 12

KnownDescendant(c, ms) == c.birthYear # None /\ c.relatedToId \in idsOf(ms)

AncestorContext(c, ms) == c.memberType = "ancestor" /\ KnownDescendant(c, ms)

AncestorAgeCase(c, ms, generationDistance) ==
  find(c.relatedToId, ms)[1].birthYear - c.birthYear < 12 * generationDistance

BirthYearErrors == {"bornBeforeParent", "parentTooYoung"}
AncestorAgeErrors == {"ancestorYounger", "ancestorTooYoung"}

ErrorKind(error) ==
  IF error \in BirthYearErrors THEN "birthYear"
  ELSE IF error \in AncestorAgeErrors THEN "ancestorAge"
  ELSE error

When(case, kind) == IF case THEN <<kind>> ELSE <<>>

ExpectedErrorKinds(c, ms) ==
  When(SelfParentCase(c), "selfParent")
  \o When(SameParentsCase(c), "sameParents")
  \o When(CycleCase(c, ms), "circular")
  \o When(HalfSiblingCase(c, ms), "halfSibling")
  \o When(BirthYearCase(c, ms), "birthYear")
  \o When(AncestorContext(c, ms) /\ AncestorAgeCase(c, ms, 1), "ancestorAge")

\* C11: the errors of runAllValidations are exactly the messages of the
\* checks whose condition is violated, each present whatever the other
\* checks found, in the order self-parent, distinct-parents, cycle,
\* half-sibling conflict, birth-year, ancestor-age.
C11_ChecksIndependent ==
  call.fn = "runAllValidations" =>
    [i \in DOMAIN call.errors |-> ErrorKind(call.errors[i])]
      = ExpectedErrorKinds(call, members)

HasError(errors, kinds) == \E i \in DOMAIN errors : errors[i] \in kinds

\* C12: in a descendant or sibling addition, or without a member-type hint
\* when a parent id is set, a call with a birth year returns a birth-year
\* error (and blocks) when some resolved proposed parent was born after the
\* child or fewer than 12 years before it, and returns no birth-year error
\* when every resolved parent is at least 12 years older.
C12_BirthYearGap ==
  (call.fn = "runAllValidations" /\ BirthYearContext(call)) =>
    IF \E id \in ResolvedParents(call, members) : Gap(call, id, members) < 12
    THEN HasError(call.errors, BirthYearErrors) /\ call.blocked
    ELSE ~HasError(call.errors, BirthYearErrors)

\* a child born in 1999 to a parent born in 1990 was rejected
C12_Witness ==
  /\ call.fn = "runAllValidations" /\ BirthYearContext(call)
  /\ call.birthYear = 1999 /\ call.errors = <<"parentTooYoung">>
  /\ \E id \in ResolvedParents(call, members) : Gap(call, id, members) = 9

\* generations between a proposed ancestor and the related member
GenerationDistance(c, ms) == find(c.relatedToId, ms)[1].generation - c.memberGeneration

IsError(result) == ~result.isValid /\ result.error # ""

C14_HalfSiblingConflict ==
  call.fn = "runAllValidations" =>
    /\ HalfSiblingCase(call, members) =>
         HasError(call.errors, {"halfSibling"}) /\ call.blocked
    /\ ~call.isHalfSibling => ~HasError(call.errors, {"halfSibling"})

\* the conflict was reported for parents stored in the opposite order
C14_Witness ==
  /\ call.fn = "runAllValidations" /\ HalfSiblingCase(call, members)
  /\ call.parentId # call.secondParentId
  /\ \E i \in DOMAIN members : /\ members[i].parentId = call.secondParentId
                               /\ members[i].secondParentId = call.parentId
  /\ HasError(call.errors, {"halfSibling"})

\* the member set with the other generation stored for the k-th member
Regenerated(ms, k) ==
  [i \in DOMAIN ms |-> IF i = k THEN [ms[i] EXCEPT !.generation = 1 - @] ELSE ms[i]]

\* the member set in which the proposed parents have no other partners.
\* The partners taken from the record are those no blocking check reads:
\* not the candidate, none of its descendants, not a proposed parent.
WithoutOtherPartners(c, ms) ==
  LET kept == ProposedParents(c) \cup {None, c.memberId}
                \cup (IF c.memberId = None THEN {}
                      ELSE TransitiveDescendants(c.memberId, ms))
  IN [i \in DOMAIN ms |->
        [ms[i] EXCEPT
           !.parentId = IF ms[i].secondParentId \in ProposedParents(c) /\ @ \notin kept
                        THEN None ELSE @,
           !.secondParentId = IF ms[i].parentId \in ProposedParents(c) /\ @ \notin kept
                              THEN None ELSE @]]

errorsOf(c, memberGeneration, ms) ==
  runAllValidations(c.memberId, c.parentId, c.secondParentId, memberGeneration, ms,
                    c.isHalfSibling, c.birthYear, c.memberType, c.relatedToId).errors

WarningKinds ==
  {"generation", "parentsGeneration", "newRelationshipBoth", "newRelationshipFirst",
   "newRelationshipSecond"}

\* a proposed generation no stored one is below, and one above them all
Generations == {0, 2}

\* C15: the generation-ordering, parents-of-different-generation and
\* new-partnership conditions never add an entry to the errors: the errors
\* hold no warning, they are the same for every proposed generation and
\* for every other generation stored for a member, they are the same when the
\* proposed parents have no other partners, and a result without errors
\* does not block submission whatever its warnings.
C15_WarningsNeverBlock ==
  call.fn = "runAllValidations" =>
    /\ ~HasError(call.errors, WarningKinds)
    /\ \A memberGeneration \in Generations :
         errorsOf(call, memberGeneration, members) = call.errors
    /\ \A k \in DOMAIN members :
         errorsOf(call, call.memberGeneration, Regenerated(members, k)) = call.errors
    /\ errorsOf(call, call.memberGeneration, WithoutOtherPartners(call, members))
         = call.errors
    /\ call.errors = <<>> => ~call.blocked

\* a call returned a generation warning and a new-partnership warning, no
\* error, and did not block
C15_Witness ==
  /\ call.fn = "runAllValidations"
  /\ HasError(call.warnings, {"generation"})
  /\ HasError(call.warnings, {"newRelationshipFirst", "newRelationshipSecond"})
  /\ call.errors = <<>> /\ ~call.blocked

\* ------------------------------------------------- classifier claims
\* the reference table: a prefix for the distance, a stem for the member
\* type and the gender
DistancePrefix(generationDistance) ==
  CASE generationDistance = 1 -> ""
    [] generationDistance = 2 -> "grand"
    [] generationDistance = 3 -> "great-grand"
    [] OTHER -> "great-great-grand"

Feminine(gender) == gender = "female"

ReferenceLabel(c) ==
  CASE c.memberType = "spouse" -> "spouse"
    [] c.memberType = "sibling" ->
         (IF c.isHalfSibling THEN "half-" ELSE "")
         \o (IF Feminine(c.gender) THEN "sister" ELSE "brother")
    [] c.memberType = "ancestor" ->
         DistancePrefix(c.generationDiff)
         \o (IF Feminine(c.gender) THEN "mother" ELSE "father")
    [] c.memberType = "descendant" ->
         DistancePrefix(c.generationDiff)
         \o (IF Feminine(c.gender) THEN "daughter" ELSE "son")

\* C16: calculateRelationship returns the label of the reference table for
\* every member type, gender (male, female, other, absent), generation
\* distance >= 1 and half-sibling flag; distances of 4 and more share the
\* great-great- label and an absent gender takes the masculine label.
C16_ClassifierTable ==
  call.fn = "calculateRelationship" => call.out = ReferenceLabel(call)

\* ('ancestor', 'female', 2, false) was classified as 'grandmother'
C16_Witness ==
  /\ call.fn = "calculateRelationship"
  /\ call.memberType = "ancestor" /\ call.gender = "female"
  /\ call.generationDiff = 2 /\ ~call.isHalfSibling
  /\ call.out = "grandmother"

\* ------------------------------------------------ unknown-id claims
UnknownIds(ms) == MemberIds \ idsOf(ms)

\* some member names id in a parent slot
NamedAsParent(id, ms) ==
  \E i \in DOMAIN ms : id \in {ms[i].parentId, ms[i].secondParentId}

IdDerivers ==
  {"getChildrenOf", "getSpousesOf", "getSiblingsOf", "getAllAncestors",
   "getAllDescendants"}

IsEmpty(fn, result) ==
  CASE fn \in {"getChildrenOf", "getSpousesOf"} -> result = <<>>
    [] fn \in {"getAllAncestors", "getAllDescendants"} -> result = {}
    [] fn = "getSiblingsOf" -> result.fullSiblings = <<>> /\ result.halfSiblings = <<>>

\* the parents of a member that resolve, first slot first
ResolvedParentIds(member, ms) ==
  (IF member.parentId \in idsOf(ms) THEN <<member.parentId>> ELSE <<>>)
  \o (IF member.secondParentId \in idsOf(ms) THEN <<member.secondParentId>> ELSE <<>>)

ParentsSkipUnresolved ==
  call.fn = "getParentsOf" =>
    \A i \in DOMAIN members :
      /\ mapIds(call.out[i]) = ResolvedParentIds(members[i], members)
      /\ \A k \in DOMAIN call.out[i] : call.out[i][k] = find(call.out[i][k].id, members)[1]

RECURSIVE SpouseIdsOfTree(_)
RECURSIVE SpouseIdsOfForest(_)
\* the ids listed in the spouse list of some node of a tree
SpouseIdsOfTree(node) ==
  {node.spouses[k].id : k \in DOMAIN node.spouses} \cup SpouseIdsOfForest(node.children)
SpouseIdsOfForest(nodes) ==
  IF nodes = <<>> THEN {}
  ELSE SpouseIdsOfTree(Head(nodes)) \cup SpouseIdsOfForest(Tail(nodes))

\* a member one of whose partners has a parent inside the member set
PartnerHasParents(id, ms) ==
  \E s \in idsOf(getSpouses(id, ms)) : hasParentsInTree(s, ms)

\* the root candidates the spouse-only filter is to drop
FilteredCandidates(ms) == {r \in RootCandidates(ms) : PartnerHasParents(r, ms)}

SomeTrueRoot(ms) == RootCandidates(ms) \ FilteredCandidates(ms) # {}

\* no member is a partner of itself or of one of its own descendants
NoPartnerInLine(ms) ==
  \A m \in idsOf(ms) :
     idsOf(getSpouses(m, ms)) \cap ({m} \cup TransitiveDescendants(m, ms)) = {}

OnlyInSpouseLists(f, rootNodes) ==
  /\ f \notin Range(ForestIds(rootNodes))
  /\ f \in SpouseIdsOfForest(rootNodes)

RootsUsed(ms) ==
  LET trueRoots == filterSpouseOnlyRoots(findRoots(ms), ms)
  IN IF Len(trueRoots) > 0 THEN trueRoots ELSE findRoots(ms)

\* the members visited while the subtrees of the roots are built
VisitedFromRoots(ms) == buildRoots(RootsUsed(ms), ms, {}, <<>>).processedIds

IsTopLevelAtGenerationZero(id, rootNodes) ==
  \E k \in DOMAIN rootNodes : rootNodes[k].id = id /\ rootNodes[k].generation = 0

C20_PrimaryOnce ==
  call.fn \in TreeFns => Distinct(ForestIds(call.rootNodes))


\* ------------------------------------- tree builder claims (fallback)
\* the children of the members of S and of their partners
ChildStep(S, ms) ==
  UNION {idsOf(getDirectChildren(x, ms)) : x \in S} \cup
  UNION {idsOf(getDirectChildren(p, ms)) :
           p \in UNION {idsOf(getSpouses(x, ms)) : x \in S}}

RECURSIVE ChildReach(_, _)
\* the members reachable from S through child and spouse-child links
ChildReach(S, ms) ==
  LET T == S \cup (ChildStep(S, ms) \cap idsOf(ms))
  IN IF T = S THEN S ELSE ChildReach(T, ms)

NoRootCandidate(ms) == ms # <<>> /\ RootCandidates(ms) = {}

\* the result is the subtree of the first member, at generation 0,
\* without a virtual root
IsFirstMemberSubtree(out, ms) ==
  /\ Len(out) = 1
  /\ out[1].id = ms[1].id /\ out[1].id # RootId
  /\ out[1].generation = 0

\* C21: on a non-empty member set without a root candidate the result is
\* the subtree built from the first member at generation 0, with no
\* virtual root, and a member that is not reachable from the first member
\* through child or spouse-child links is absent from the result: it is
\* neither the primary member of a node nor listed as a spouse.
C21_FallbackFirstMember ==
  (call.fn = "transformToTreeData" /\ NoRootCandidate(members)) =>
    /\ IsFirstMemberSubtree(call.out, members)
    /\ \A id \in idsOf(members) \ ChildReach({members[1].id}, members) :
          /\ id \notin Range(TreeIds(call.out[1]))
          /\ id \notin SpouseIdsOfTree(call.out[1])

\* C21 (amended): the unreachable members have no node of their own; they
\* may still be listed as a spouse of a node.
C21_FallbackFirstMemberNodes ==
  (call.fn = "transformToTreeData" /\ NoRootCandidate(members)) =>
    /\ IsFirstMemberSubtree(call.out, members)
    /\ \A id \in idsOf(members) \ ChildReach({members[1].id}, members) :
          id \notin Range(TreeIds(call.out[1]))

\* a cycle whose first member has a child node, with another member that
\* is not reachable and has no node
C21_Witness ==
  /\ call.fn = "transformToTreeData" /\ NoRootCandidate(members)
  /\ IsFirstMemberSubtree(call.out, members)
  /\ call.out[1].children # <<>>
  /\ \E id \in idsOf(members) \ ChildReach({members[1].id}, members) :
        id \notin Range(TreeIds(call.out[1]))


\* ----------------------------------- tree builder claims (generations)
RECURSIVE IsStructural(_)
\* every child node is one generation below its parent node
IsStructural(node) ==
  \A k \in DOMAIN node.children :
     /\ node.children[k].generation = node.generation + 1
     /\ IsStructural(node.children[k])

RECURSIVE NodesOfTree(_)
RECURSIVE NodesOfForest(_)
\* the nodes of a tree, as [id, generation] pairs
NodesOfTree(node) ==
  {[id |-> node.id, generation |-> node.generation]} \cup NodesOfForest(node.children)
NodesOfForest(nodes) ==
  IF nodes = <<>> THEN {} ELSE NodesOfTree(Head(nodes)) \cup NodesOfForest(Tail(nodes))

\* C22: in every tree returned by transformToTreeData the virtual root has
\* generation -1, every top-level member node has generation 0 and every
\* child node has the generation of its parent node plus one, whatever
\* the stored generation fields of the members are.
C22_StructuralGenerations ==
  (call.fn = "transformToTreeData" /\ call.out # <<>>) =>
    /\ call.out[1].id = RootId => call.out[1].generation = -1
    /\ \A k \in DOMAIN call.rootNodes :
          call.rootNodes[k].generation = 0 /\ IsStructural(call.rootNodes[k])
    /\ IsStructural(call.out[1])

\* a virtual root over a node with a child, the stored generation of some
\* member different from the generation of its node
C22_Witness ==
  /\ call.fn = "transformToTreeData" /\ call.out # <<>>
  /\ call.out[1].id = RootId
  /\ \E k \in DOMAIN call.rootNodes : call.rootNodes[k].children # <<>>
  /\ \E i \in DOMAIN members : \E node \in NodesOfForest(call.rootNodes) :
        node.id = members[i].id /\ node.generation # members[i].generation


\* ------------------------------------- tree builder claims (spouses)
RECURSIVE SpouseSummariesOfTree(_)
RECURSIVE SpouseSummariesOfForest(_)
\* the spouse summaries of the nodes of a tree
SpouseSummariesOfTree(node) ==
  Range(node.spouses) \cup SpouseSummariesOfForest(node.children)
SpouseSummariesOfForest(nodes) ==
  IF nodes = <<>> THEN {}
  ELSE SpouseSummariesOfTree(Head(nodes)) \cup SpouseSummariesOfForest(Tail(nodes))

FlagsMatchNodes(rootNodes) ==
  \A summary \in SpouseSummariesOfForest(rootNodes) :
     summary.appearsElsewhere <=> summary.id \in Range(ForestIds(rootNodes))

NoSelfPartner(ms) == \A m \in idsOf(ms) : m \notin idsOf(getSpouses(m, ms))

\* a root candidate survives the filter and the subtrees of the true
\* roots hold every member, as a node or as a merged spouse
AllVisitedFromTrueRoots(ms) ==
  SomeTrueRoot(ms) /\ idsOf(ms) \subseteq VisitedFromRoots(ms)

PassesParentChecks(m, p, ms) ==
  /\ validateNotSelfParent(m, p, None).isValid
  /\ validateNoCircularRelationship(m, p, None, ms).isValid
  /\ validateNotSelfParent(m, None, p).isValid
  /\ validateNoCircularRelationship(m, None, p, ms).isValid

\* C29: for every member set and every member m of it, a member p is
\* among getValidParentOptions(m.id, members) if and only if proposing p
\* as a parent of m passes validateNotSelfParent and
\* validateNoCircularRelationship.
C29_OptionsAgreeWithValidators ==
  call.fn = "getValidParentOptions" =>
    \A m \in idsOf(members) : \A p \in idsOf(members) :
       p \in idsOf(call.out[m]) <=> PassesParentChecks(m, p, members)

\* a member with a child and an unrelated member: the dropdown offers the
\* second and not the first
C29_Witness ==
  /\ call.fn = "getValidParentOptions"
  /\ \E m \in idsOf(members) : \E p, q \in idsOf(members) \ {m} :
        /\ p \notin idsOf(call.out[m]) /\ ~PassesParentChecks(m, p, members)
        /\ q \in idsOf(call.out[m]) /\ PassesParentChecks(m, q, members)


\* --------------------------------------------------- sibling claims
\* no member has the same id in both parent slots
DistinctParentSlots(ms) ==
  \A i \in DOMAIN ms : ms[i].parentId # None => ms[i].parentId # ms[i].secondParentId

\* C30: on a member set in which no member has the same id in both parent
\* slots, for all members a and b, b is a full sibling of a iff a is a
\* full sibling of b, and b is a half sibling of a iff a is a half sibling
\* of b.
C30_SiblingsSymmetric ==
  (call.fn = "getSiblingsOf" /\ DistinctParentSlots(members)) =>
    \A a \in idsOf(members) : \A b \in idsOf(members) :
       /\ b \in idsOf(call.out[a].fullSiblings) <=> a \in idsOf(call.out[b].fullSiblings)
       /\ b \in idsOf(call.out[a].halfSiblings) <=> a \in idsOf(call.out[b].halfSiblings)

\* two full siblings whose parents are in swapped slots, and a half
\* sibling of both
C30_Witness ==
  /\ call.fn = "getSiblingsOf" /\ DistinctParentSlots(members)
  /\ \E a, b, c \in idsOf(members) :
        /\ b \in idsOf(call.out[a].fullSiblings) /\ a \in idsOf(call.out[b].fullSiblings)
        /\ find(a, members)[1].parentId = find(b, members)[1].secondParentId
        /\ c \in idsOf(call.out[a].halfSiblings) /\ a \in idsOf(call.out[c].halfSiblings)


\* ------------------------------------------------------- flow claims
EditFns == {"EditMemberDialog.onSubmit", "EditMemberDialogValidated.onSubmit"}
AddFns == {"AddMemberDialog.onSubmit"}

\* the handler has ended and every request of it succeeded
AllWritesSucceeded == dialog = "closed" /\ call.failed = <<>>

\* A.spouseId = B iff B.spouseId = A
SpouseSymmetric(ms) ==
  \A i \in DOMAIN ms :
     ms[i].spouseId # None =>
       /\ find(ms[i].spouseId, ms) # <<>>
       /\ find(ms[i].spouseId, ms)[1].spouseId = ms[i].id

spouseIdOf(id, ms) == IF find(id, ms) = <<>> THEN None ELSE find(id, ms)[1].spouseId

\* C24: when the spouse links of the snapshot are symmetric and every
\* write of an edit flow succeeds, then after the flow has changed member
\* M's spouse from O to N (either may be absent) the links are symmetric,
\* M and N point to each other, and O and the former spouse of N have no
\* spouse.
C24_EditKeepsSpousesSymmetric ==
  (/\ call.fn \in EditFns /\ AllWritesSucceeded
   /\ SpouseSymmetric(call.existing)) =>
    LET M == call.memberId
        O == spouseIdOf(M, call.existing)
        N == call.spouseId
        T == spouseIdOf(N, call.existing)
    IN /\ SpouseSymmetric(members)
       /\ spouseIdOf(M, members) = N
       /\ N # None => spouseIdOf(N, members) = M
       /\ (O # None /\ O # N) => spouseIdOf(O, members) = None
       /\ (T # None /\ T # M) => spouseIdOf(T, members) = None

\* a member that left its spouse for a member without one
C24_Witness ==
  /\ call.fn \in EditFns /\ AllWritesSucceeded
  /\ SpouseSymmetric(call.existing)
  /\ LET M == call.memberId
         O == spouseIdOf(M, call.existing)
         N == call.spouseId
     IN /\ O # None /\ N # None /\ O # N
        /\ spouseIdOf(M, members) = N /\ spouseIdOf(N, members) = M
        /\ spouseIdOf(O, members) = None


\* the primary write of the handler succeeded
PrimarySucceeded == dialog \in {"submitting", "closed"} \/ call.failed # <<>>

\* the handler answered every response and no request threw
EndedWithoutException == dialog = "closed"

\* the failed follow-ups that were to point a member's spouseId at id
FailedRelinks(id) ==
  {call.failed[k].id : k \in {j \in DOMAIN call.failed :
                                call.failed[j].updates = [spouseId |-> id]}}

\* C25: the edit flows have no compensation.  Once the primary write of
\* member M has succeeded, M keeps the submitted spouse whatever happens
\* to the follow-ups; a new spouse N whose follow-up write failed keeps
\* the spouseId of the snapshot, so M.spouseId = N and N.spouseId # M; and
\* a flow whose failures were all non-success responses ends with the
\* success toast.
C25_NoCompensation ==
  (call.fn \in EditFns /\ PrimarySucceeded) =>
    /\ spouseIdOf(call.memberId, members) = call.spouseId
    /\ \A N \in FailedRelinks(call.memberId) :
          /\ N = call.spouseId
          /\ spouseIdOf(N, members) = spouseIdOf(N, call.existing)
          /\ spouseIdOf(N, members) # call.memberId
    /\ EndedWithoutException => call.toast = "success"

\* a flow of the full edit dialog that ended with the success toast after
\* the write to the new spouse was answered with a non-success response
C25_Witness ==
  /\ call.fn = "EditMemberDialog.onSubmit" /\ EndedWithoutException
  /\ call.toast = "success"
  /\ call.spouseId \in FailedRelinks(call.memberId)
  /\ spouseIdOf(call.memberId, members) = call.spouseId
  /\ spouseIdOf(call.spouseId, members) # call.memberId


\* the members whose spouseId is id
PointingAt(id, ms) == {ms[i].id : i \in {j \in DOMAIN ms : ms[j].spouseId = id}}

\* C26: when the spouse links of the snapshot are symmetric and every
\* write of an add flow succeeds, then after a member was created with a
\* selected spouse S the links are symmetric: the new member's spouseId is
\* S, S.spouseId is the new member, and no third member has S or the new
\* member as its spouse.
C26_AddKeepsSpousesSymmetric ==
  (/\ call.fn \in AddFns /\ AllWritesSucceeded
   /\ SpouseSymmetric(call.existing) /\ call.spouseId # None) =>
    LET S == call.spouseId
        new == call.memberId
    IN /\ SpouseSymmetric(members)
       /\ spouseIdOf(new, members) = S
       /\ spouseIdOf(S, members) = new
       /\ PointingAt(S, members) = {new}
       /\ PointingAt(new, members) = {S}

\* the members a flow reaches only through its follow-up writes: every
\* member but the edited or created one
FollowUpWritten(ms) == SelectSeq(ms, LAMBDA m : m.id # call.memberId)

\* C27: when no member of the snapshot has the same id in both parent
\* slots and every write of an add or edit flow succeeds, then no member
\* that the flow reached through its child and sibling follow-up writes
\* has the same id in both parent slots afterwards.
C27_FollowUpsKeepParentSlotsDistinct ==
  (/\ call.fn \in EditFns \cup AddFns /\ AllWritesSucceeded
   /\ DistinctParentSlots(call.existing)) =>
    DistinctParentSlots(FollowUpWritten(members))

\* the store as the primary write alone leaves its parent links
PrimaryWritten ==
  IF find(call.memberId, call.existing) = <<>>
  THEN addMember(call.existing, find(call.memberId, members)[1])
  ELSE put(call.existing, call.memberId,
           [parentId |-> find(call.memberId, members)[1].parentId,
            secondParentId |-> find(call.memberId, members)[1].secondParentId])

\* C28: when the parent graph of the snapshot is acyclic and every write
\* of an add or edit flow succeeds, and the primary write alone left the
\* graph acyclic, then the graph is acyclic after the child and sibling
\* follow-up writes: no member is an ancestor of itself.
C28_FollowUpsKeepParentsAcyclic ==
  (/\ call.fn \in EditFns \cup AddFns /\ AllWritesSucceeded
   /\ Acyclic(call.existing) /\ Acyclic(PrimaryWritten)) =>
    Acyclic(members)

====
